---------------------------- MODULE Spec2Model ----------------------------
(***************************************************************************)
(* Model of the electrician-tool estimation core:                          *)
(*   labor_matcher.py   (normalize / extract / score / search / best_match)*)
(*   cost_calculator.py (parse_quantity / calculate_labor_extension /      *)
(*                       run_estimation)                                   *)
(*   app.py             (/api/labor/search, /api/estimate)                 *)
(*   report_generator.py (generate_summary_report classification)          *)
(*   price_scraper.py   (scrape_platt and its cache file)                  *)
(*                                                                         *)
(* Strings are TLA+ strings handled character by character (SubSeq, Len,   *)
(* \o).  Python floats are modelled as exact rationals [n, d] in lowest    *)
(* terms; scores, which the code builds from integers plus 0.3 * an        *)
(* integer and then rounds to one decimal, are integers in tenths.         *)
(* Where the rounding of a double decides a property, the same arithmetic  *)
(* is also given on IEEE-754 doubles (F64Mul, F64DivNat).                  *)
(***************************************************************************)
EXTENDS Integers, Sequences, FiniteSets, TLC

(***************************************************************************)
(* Characters and Python str methods                                       *)
(***************************************************************************)
Ch(s, i) == SubSeq(s, i, i)

Digits == {"0", "1", "2", "3", "4", "5", "6", "7", "8", "9"}

DigitsOrComma == Digits \cup {","}

\* the characters matched by \s and removed by str.strip() / str.split()
Spaces == {" "}

UpperCase == {"A", "B", "C", "D", "E", "F", "G", "H", "I", "J", "K", "L", "M",
              "N", "O", "P", "Q", "R", "S", "T", "U", "V", "W", "X", "Y", "Z"}

LowerCase == {"a", "b", "c", "d", "e", "f", "g", "h", "i", "j", "k", "l", "m",
              "n", "o", "p", "q", "r", "s", "t", "u", "v", "w", "x", "y", "z"}

LowerOf == [c \in UpperCase |->
              CASE c = "A" -> "a" [] c = "B" -> "b" [] c = "C" -> "c"
                [] c = "D" -> "d" [] c = "E" -> "e" [] c = "F" -> "f"
                [] c = "G" -> "g" [] c = "H" -> "h" [] c = "I" -> "i"
                [] c = "J" -> "j" [] c = "K" -> "k" [] c = "L" -> "l"
                [] c = "M" -> "m" [] c = "N" -> "n" [] c = "O" -> "o"
                [] c = "P" -> "p" [] c = "Q" -> "q" [] c = "R" -> "r"
                [] c = "S" -> "s" [] c = "T" -> "t" [] c = "U" -> "u"
                [] c = "V" -> "v" [] c = "W" -> "w" [] c = "X" -> "x"
                [] c = "Y" -> "y" [] c = "Z" -> "z"]

\* str.lower()
RECURSIVE Lower(_)
Lower(s) ==
  IF s = "" THEN ""
  ELSE LET c == Ch(s, 1)
       IN (IF c \in UpperCase THEN LowerOf[c] ELSE c) \o Lower(SubSeq(s, 2, Len(s)))

\* number of consecutive characters of class cls in s from position i on
\* (a greedy regex repetition of a character class)
RECURSIVE Span(_, _, _)
Span(s, i, cls) ==
  IF i <= Len(s) /\ Ch(s, i) \in cls THEN 1 + Span(s, i + 1, cls) ELSE 0

\* number of characters of class cls that end s
RECURSIVE SpanBack(_, _)
SpanBack(s, cls) ==
  IF s # "" /\ Ch(s, Len(s)) \in cls
  THEN 1 + SpanBack(SubSeq(s, 1, Len(s) - 1), cls) ELSE 0

\* str.strip()
Strip(s) ==
  LET a == Span(s, 1, Spaces)
  IN IF a = Len(s) THEN "" ELSE SubSeq(s, a + 1, Len(s) - SpanBack(s, Spaces))

\* s[p:].startswith(w)
StartsWithAt(s, p, w) ==
  p + Len(w) - 1 <= Len(s) /\ SubSeq(s, p, p + Len(w) - 1) = w

\* str.replace(old, new): every non-overlapping occurrence, left to right
RECURSIVE Replace(_, _, _)
Replace(s, old, new) ==
  IF s = "" THEN ""
  ELSE IF StartsWithAt(s, 1, old)
       THEN new \o Replace(SubSeq(s, Len(old) + 1, Len(s)), old, new)
       ELSE Ch(s, 1) \o Replace(SubSeq(s, 2, Len(s)), old, new)

\* the Python test  sub in s  on strings
RECURSIVE ContainsFrom(_, _, _)
ContainsFrom(s, sub, p) ==
  IF p + Len(sub) - 1 > Len(s) THEN FALSE
  ELSE StartsWithAt(s, p, sub) \/ ContainsFrom(s, sub, p + 1)

Contains(s, sub) == ContainsFrom(s, sub, 1)

\* the characters matched by \w
WordChars == Digits \cup LowerCase \cup UpperCase \cup {"_"}

\* re.sub(r'\s+', ' ', s)
RECURSIVE CollapseSpaces(_)
CollapseSpaces(s) ==
  IF s = "" THEN ""
  ELSE LET k == Span(s, 1, Spaces)
       IN IF k > 0 THEN " " \o CollapseSpaces(SubSeq(s, k + 1, Len(s)))
          ELSE Ch(s, 1) \o CollapseSpaces(SubSeq(s, 2, Len(s)))

\* number of consecutive characters outside cls in s from position i on
RECURSIVE SpanNot(_, _, _)
SpanNot(s, i, cls) ==
  IF i <= Len(s) /\ Ch(s, i) \notin cls THEN 1 + SpanNot(s, i + 1, cls) ELSE 0

\* str.split(): the whitespace-separated words of s, in order
RECURSIVE Split(_)
Split(s) ==
  LET a == Span(s, 1, Spaces)
      w == SpanNot(s, a + 1, Spaces)
  IN IF w = 0 THEN <<>>
     ELSE <<SubSeq(s, a + 1, a + w)>> \o Split(SubSeq(s, a + w + 1, Len(s)))

\* x in seq
InSeq(x, seq) == \E i \in 1..Len(seq) : seq[i] = x

\* sep.join(seq)
RECURSIVE Join(_, _)
Join(seq, sep) ==
  IF Len(seq) = 0 THEN ""
  ELSE IF Len(seq) = 1 THEN seq[1]
  ELSE seq[1] \o sep \o Join(Tail(seq), sep)

\* \b at position p of s: between s[p-1] and s[p] exactly one is a word
\* character (the ends of the string count as non-word)
WordBoundary(s, p) ==
  (p > 1 /\ Ch(s, p - 1) \in WordChars) # (p <= Len(s) /\ Ch(s, p) \in WordChars)

\* re.sub(r'\b' + re.escape(alias) + r'\b', repl, s), scanning from p
RECURSIVE SubWord(_, _, _, _)
SubWord(s, alias, repl, p) ==
  IF p > Len(s) THEN ""
  ELSE IF /\ StartsWithAt(s, p, alias)
          /\ WordBoundary(s, p)
          /\ WordBoundary(s, p + Len(alias))
       THEN repl \o SubWord(s, alias, repl, p + Len(alias))
       ELSE Ch(s, p) \o SubWord(s, alias, repl, p + 1)

(***************************************************************************)
(* Numbers: Python floats as exact rationals in lowest terms               *)
(***************************************************************************)
Abs(x) == IF x < 0 THEN -x ELSE x

RECURSIVE GCD(_, _)
GCD(a, b) == IF b = 0 THEN a ELSE GCD(b, a % b)

Rat(n, d) ==
  LET g == GCD(Abs(n), Abs(d))
      sg == IF d < 0 THEN -1 ELSE 1
  IN [n |-> sg * (n \div g), d |-> sg * (d \div g)]

RInt(k) == [n |-> k, d |-> 1]

RMul(x, y) == Rat(x.n * y.n, x.d * y.d)

RDivInt(x, k) == Rat(x.n, x.d * k)

RAdd(x, y) == Rat(x.n * y.d + y.n * x.d, x.d * y.d)

RLess(x, y) == x.n * y.d < y.n * x.d

RECURSIVE Pow10(_)
Pow10(k) == IF k = 0 THEN 1 ELSE 10 * Pow10(k - 1)

DigitVal == [c \in Digits |->
               CASE c = "0" -> 0 [] c = "1" -> 1 [] c = "2" -> 2 [] c = "3" -> 3
                 [] c = "4" -> 4 [] c = "5" -> 5 [] c = "6" -> 6 [] c = "7" -> 7
                 [] c = "8" -> 8 [] c = "9" -> 9]

\* the value of a string of decimal digits ("" is 0)
RECURSIVE DigitsVal(_)
DigitsVal(s) ==
  IF s = "" THEN 0
  ELSE 10 * DigitsVal(SubSeq(s, 1, Len(s) - 1)) + DigitVal[Ch(s, Len(s))]

\* float(s): [ok |-> FALSE] stands for ValueError.  The grammar is
\* [sign] digits [. digits] with at least one digit, after stripping
\* whitespace; exponents, underscores, inf and nan are not in the input
\* alphabet of the model.
PyFloat(s) ==
  LET t == Strip(s)
      sg == IF t # "" /\ Ch(t, 1) \in {"+", "-"} THEN 1 ELSE 0
      body == SubSeq(t, sg + 1, Len(t))
      ni == Span(body, 1, Digits)
      dot == IF ni < Len(body) /\ Ch(body, ni + 1) = "." THEN 1 ELSE 0
      nf == Span(body, ni + dot + 1, Digits)
      ip == SubSeq(body, 1, ni)
      fp == SubSeq(body, ni + dot + 1, ni + dot + nf)
      mag == DigitsVal(ip) * Pow10(nf) + DigitsVal(fp)
  IN IF ni + dot + nf = Len(body) /\ ni + nf > 0
     THEN [ok |-> TRUE,
           val |-> Rat(IF sg = 1 /\ Ch(t, 1) = "-" THEN -mag ELSE mag, Pow10(nf))]
     ELSE [ok |-> FALSE, val |-> RInt(0)]

(***************************************************************************)
(* cost_calculator.py                                                      *)
(***************************************************************************)
(* Python floats as IEEE-754 doubles, for the places where rounding shows. *)
(* A positive double is [m, e]: m its 53 significand bits, the least       *)
(* significant first, and e the exponent of that bit, so that the value is *)
(* m * 2^e; zero is [m |-> <<>>, e |-> 0].  The operands of this module    *)
(* are non-negative and far from overflow and from the subnormal range.    *)
(***************************************************************************)
RECURSIVE Pow2(_)
Pow2(k) == IF k = 0 THEN 1 ELSE 2 * Pow2(k - 1)

\* the bits of a natural number, least significant first
RECURSIVE NatBits(_)
NatBits(n) == IF n = 0 THEN <<>> ELSE <<n % 2>> \o NatBits(n \div 2)

Zeros(k) == [i \in 1..k |-> 0]

\* the bits without their leading zeros
TrimBits(b) ==
  LET ones == {i \in 1..Len(b) : b[i] = 1}
  IN IF ones = {} THEN <<>>
     ELSE SubSeq(b, 1, CHOOSE i \in ones : \A j \in ones : j <= i)

\* the bits plus one
IncBits(b) ==
  LET zeros == {i \in 1..Len(b) : b[i] = 0}
  IN IF zeros = {} THEN Zeros(Len(b)) \o <<1>>
     ELSE LET p == CHOOSE i \in zeros : \A j \in zeros : i <= j
          IN [i \in 1..Len(b) |-> IF i < p THEN 0 ELSE IF i = p THEN 1 ELSE b[i]]

F64Zero == [m |-> <<>>, e |-> 0]

\* a significand of exactly 53 bits: kept is 53 or 54 bits long
F64Fit(kept, e) ==
  IF Len(kept) = 54 THEN [m |-> SubSeq(kept, 2, 54), e |-> e + 1]
  ELSE [m |-> kept, e |-> e]

\* round to nearest, ties to even: the double nearest to bits * 2^e
F64Round(bits, e) ==
  LET b == TrimBits(bits)
      cut == Len(b) - 53
  IN IF Len(b) = 0 THEN F64Zero
     ELSE IF cut <= 0 THEN [m |-> Zeros(-cut) \o b, e |-> e + cut]
     ELSE IF b[cut] = 1 /\ (b[cut + 1] = 1 \/ \E i \in 1..(cut - 1) : b[i] = 1)
     THEN F64Fit(IncBits(SubSeq(b, cut + 1, Len(b))), e + cut)
     ELSE [m |-> SubSeq(b, cut + 1, Len(b)), e |-> e + cut]

\* float(n) for a natural number n
F64Nat(n) == F64Round(NatBits(n), 0)

\* significands are multiplied in limbs of 13 bits
LimbBits == 13

RECURSIVE LimbAt(_, _, _)
LimbAt(b, j, k) ==
  IF k > LimbBits \/ LimbBits * (j - 1) + k > Len(b) THEN 0
  ELSE b[LimbBits * (j - 1) + k] * Pow2(k - 1) + LimbAt(b, j, k + 1)

Limbs(b) ==
  [j \in 1..((Len(b) + LimbBits - 1) \div LimbBits) |-> LimbAt(b, j, 1)]

RECURSIVE ColumnSum(_, _, _, _)
ColumnSum(a, c, j, i) ==
  IF i > Len(a) \/ i > j THEN 0
  ELSE (IF j - i + 1 <= Len(c) THEN a[i] * c[j - i + 1] ELSE 0)
       + ColumnSum(a, c, j, i + 1)

RECURSIVE Carried(_, _, _)
Carried(cols, j, carry) ==
  IF j > Len(cols)
  THEN (IF carry = 0 THEN <<>>
        ELSE <<carry % Pow2(LimbBits)>>
             \o Carried(cols, j, carry \div Pow2(LimbBits)))
  ELSE <<(cols[j] + carry) % Pow2(LimbBits)>>
       \o Carried(cols, j + 1, (cols[j] + carry) \div Pow2(LimbBits))

LimbsToBits(l) ==
  [i \in 1..(LimbBits * Len(l)) |->
     (l[((i - 1) \div LimbBits) + 1] \div Pow2((i - 1) % LimbBits)) % 2]

\* the product of two naturals given by their bits
MulBits(x, y) ==
  LET a == Limbs(x)
      c == Limbs(y)
  IN LimbsToBits(Carried([j \in 1..(Len(a) + Len(c) - 1) |->
                            ColumnSum(a, c, j, 1)], 1, 0))

\* x * y on doubles
F64Mul(x, y) ==
  IF Len(x.m) = 0 \/ Len(y.m) = 0 THEN F64Zero
  ELSE F64Round(MulBits(x.m, y.m), x.e + y.e)

\* long division of the limbs by a natural d, from the top limb down: the
\* quotient's limbs, with one more limb below them that tells whether
\* anything was left over
RECURSIVE DivLimbs(_, _, _, _)
DivLimbs(l, j, d, r) ==
  IF j = 0 THEN <<IF r = 0 THEN 0 ELSE 1>>
  ELSE DivLimbs(l, j - 1, d, (r * Pow2(LimbBits) + l[j]) % d)
       \o <<(r * Pow2(LimbBits) + l[j]) \div d>>

\* x / d on doubles, for a natural d below 2^10: the dividend is extended
\* by one limb so that the quotient has bits to round away
F64DivNat(x, d) ==
  LET l == Limbs(Zeros(LimbBits) \o x.m)
  IN IF Len(x.m) = 0 THEN F64Zero
     ELSE F64Round(LimbsToBits(DivLimbs(l, Len(l), d, 0)),
                   x.e - 2 * LimbBits)

\* float of the decimal text of n / 10^k
F64Decimal(n, k) == F64DivNat(F64Nat(n), Pow10(k))

(***************************************************************************)
\* the alternation (feet|ft|foot|ea|each|lot|box), in the regex's order
UnitWords == <<"feet", "ft", "foot", "ea", "each", "lot", "box">>

\* the optional unit group at position p, re.I: the first alternative that
\* matches there, lower-cased; "" when the group does not take part
RECURSIVE UnitAlt(_, _, _)
UnitAlt(s, p, k) ==
  IF k > Len(UnitWords) THEN ""
  ELSE IF p + Len(UnitWords[k]) - 1 <= Len(s)
          /\ Lower(SubSeq(s, p, p + Len(UnitWords[k]) - 1)) = UnitWords[k]
       THEN UnitWords[k]
       ELSE UnitAlt(s, p, k + 1)

\* parse_quantity: exc = "ValueError" is the exception that leaves the
\* function (float() of group 1 is outside the try block)
parse_quantity(qty_str) ==
  LET s == Strip(qty_str)
      n1 == Span(s, 1, DigitsOrComma)
      dot == IF n1 < Len(s) /\ Ch(s, n1 + 1) = "." THEN 1 ELSE 0
      n2 == Span(s, n1 + dot + 1, Digits)
      g1 == SubSeq(s, 1, n1 + dot + n2)
      ws == Span(s, n1 + dot + n2 + 1, Spaces)
      g2 == UnitAlt(s, n1 + dot + n2 + ws + 1, 1)
      f1 == PyFloat(Replace(g1, ",", ""))
      f2 == PyFloat(Replace(s, ",", ""))
  IN IF n1 > 0
     THEN IF f1.ok
          THEN [exc |-> "none", val |-> f1.val, unit |-> g2]
          ELSE [exc |-> "ValueError", val |-> RInt(0), unit |-> ""]
     ELSE IF f2.ok
          THEN [exc |-> "none", val |-> f2.val, unit |-> ""]
          ELSE [exc |-> "none", val |-> RInt(0), unit |-> ""]

\* calculate_labor_extension with the divisors of C and M exchanged
labor_extension_swapped(qty, qty_unit, labor_value, labor_unit) ==
  IF labor_unit = "E" THEN RMul(qty, labor_value)
  ELSE IF labor_unit = "C" THEN RMul(RDivInt(qty, 1000), labor_value)
  ELSE IF labor_unit = "M" THEN RMul(RDivInt(qty, 100), labor_value)
  ELSE RMul(qty, labor_value)

\* calculate_labor_extension giving no hours for a unit it does not know
labor_extension_strict(qty, qty_unit, labor_value, labor_unit) ==
  IF labor_unit = "E" THEN RMul(qty, labor_value)
  ELSE IF labor_unit = "C" THEN RMul(RDivInt(qty, 100), labor_value)
  ELSE IF labor_unit = "M" THEN RMul(RDivInt(qty, 1000), labor_value)
  ELSE RInt(0)

\* calculate_labor_extension taking every labor value as per each
labor_extension_each(qty, qty_unit, labor_value, labor_unit) ==
  RMul(qty, labor_value)

\* calculate_labor_extension taking a quantity in feet as hundreds of feet
labor_extension_feet(qty, qty_unit, labor_value, labor_unit) ==
  IF qty_unit = "feet" THEN RMul(RDivInt(qty, 100), labor_value)
  ELSE IF labor_unit = "E" THEN RMul(qty, labor_value)
  ELSE IF labor_unit = "C" THEN RMul(RDivInt(qty, 100), labor_value)
  ELSE IF labor_unit = "M" THEN RMul(RDivInt(qty, 1000), labor_value)
  ELSE RMul(qty, labor_value)

\* calculate_labor_extension
calculate_labor_extension(qty, qty_unit, labor_value, labor_unit) ==
  IF labor_unit = "E" THEN RMul(qty, labor_value)
  ELSE IF labor_unit = "C" THEN RMul(RDivInt(qty, 100), labor_value)
  ELSE IF labor_unit = "M" THEN RMul(RDivInt(qty, 1000), labor_value)
  ELSE RMul(qty, labor_value)

\* calculate_labor_extension as the interpreter computes it, on doubles:
\* every multiplication and every division rounds its result
calculate_labor_extension_f64(qty, qty_unit, labor_value, labor_unit) ==
  IF labor_unit = "E" THEN F64Mul(qty, labor_value)
  ELSE IF labor_unit = "C" THEN F64Mul(F64DivNat(qty, 100), labor_value)
  ELSE IF labor_unit = "M" THEN F64Mul(F64DivNat(qty, 1000), labor_value)
  ELSE F64Mul(qty, labor_value)


(***************************************************************************)
(* labor_matcher.py: normalisation and feature extraction                  *)
(***************************************************************************)
\* SIZE_ALIASES, in the dict's insertion order
SIZE_ALIASES ==
  << <<".5", "1/2">>, <<"0.5", "1/2">>, <<".75", "3/4">>, <<"0.75", "3/4">>,
     <<"1.25", "1 1/4">>, <<"1.5", "1 1/2">>, <<"2.5", "2 1/2">>,
     <<"3.5", "3 1/2">> >>

\* TYPE_ALIASES, in the dict's insertion order
TYPE_ALIASES ==
  << [alias |-> "emt", targets |-> <<"EMT CONDUIT", "EMT">>],
     [alias |-> "rigid", targets |-> <<"RIGID STEEL CONDUIT", "RIGID CONDUIT">>],
     [alias |-> "pvc", targets |-> <<"PVC CONDUIT">>],
     [alias |-> "mc", targets |-> <<"MC CABLE">>],
     [alias |-> "romex", targets |-> <<"NON-METALLIC SHEATHED CABLE", "NM CABLE">>],
     [alias |-> "thhn", targets |-> <<"WIRE">>],
     [alias |-> "awg", targets |-> <<"WIRE">>],
     [alias |-> "coupling", targets |-> <<"COUPLINGS", "COUPLING">>],
     [alias |-> "connector", targets |-> <<"CONNECTORS", "CONNECTOR">>],
     [alias |-> "box", targets |-> <<"SQUARE BOXES", "OCTAGON BOXES",
                                     "SWITCH BOXES", "PLASTIC BOXES">>],
     [alias |-> "breaker", targets |-> <<"PLUG-IN CIRCUIT BREAKERS",
                                         "BOLT-ON BREAKERS">>],
     [alias |-> "strut", targets |-> <<"SUPPORT CHANNEL (STRUT)",
                                       "SUPPORT CHANNEL">>],
     [alias |-> "beam clamp", targets |-> <<"BEAM CLAMP">>],
     [alias |-> "wire nut", targets |-> <<"WIRENUTS">>],
     [alias |-> "fan", targets |-> <<"FANS">>],
     [alias |-> "switch", targets |-> <<"SWITCHES">>],
     [alias |-> "receptacle", targets |-> <<"RECEPTACLES">>] >>

\* the loop  for alias, normalized in SIZE_ALIASES.items(): desc = re.sub(...)
RECURSIVE ApplySizeAliases(_, _)
ApplySizeAliases(desc, k) ==
  IF k > Len(SIZE_ALIASES) THEN desc
  ELSE ApplySizeAliases(SubWord(desc, SIZE_ALIASES[k][1], SIZE_ALIASES[k][2], 1),
                        k + 1)

\* normalize_description
normalize_description(desc) ==
  LET a == Strip(Lower(desc))
      b == Replace(Replace(a, "\"", " inch "), "'", " ")
      c == Strip(CollapseSpaces(b))
  IN ApplySizeAliases(c, 1)

\* length of a match of \d+\s+\d+/\d+ at position p of s (0: no match)
MixedAt(s, p) ==
  LET a == Span(s, p, Digits)
      w == Span(s, p + a, Spaces)
      b == Span(s, p + a + w, Digits)
      q == p + a + w + b
      c == Span(s, q + 1, Digits)
  IN IF a > 0 /\ w > 0 /\ b > 0 /\ q <= Len(s) /\ Ch(s, q) = "/" /\ c > 0
     THEN a + w + b + 1 + c ELSE 0

\* length of a match of \d+/\d+ at position p of s (0: no match)
FractionAt(s, p) ==
  LET a == Span(s, p, Digits)
      c == Span(s, p + a + 1, Digits)
  IN IF a > 0 /\ p + a <= Len(s) /\ Ch(s, p + a) = "/" /\ c > 0
     THEN a + 1 + c ELSE 0

\* extract_size: re.search(r'(\d+\s+\d+/\d+|\d+/\d+|\d+)', desc); the
\* leftmost match starts at the first digit, alternatives tried in order
extract_size(desc) ==
  LET p == SpanNot(desc, 1, Digits) + 1
      n == IF MixedAt(desc, p) > 0 THEN MixedAt(desc, p)
           ELSE IF FractionAt(desc, p) > 0 THEN FractionAt(desc, p)
           ELSE Span(desc, p, Digits)
  IN IF p > Len(desc) THEN "" ELSE Strip(SubSeq(desc, p, p + n - 1))

\* extract_size_from_item: re.match(r'^(\d+\s+\d+/\d+|\d+/\d+)\s*$', item)
\* after dropping the inch marks and stripping
extract_size_from_item(item) ==
  LET t == Strip(Replace(Replace(item, "\"", ""), "''", ""))
  IN IF t # "" /\ (MixedAt(t, 1) = Len(t) \/ FractionAt(t, 1) = Len(t))
     THEN t ELSE ""

stop_words == {"with", "and", "for", "the", "a", "an", "or", "in", "on",
               "to", "of", "inch", "feet", "ft", "ea", "each", "per"}

IsKeyword(w) == w \notin stop_words /\ Len(w) > 1

\* LaborMatcher._extract_keywords: a list, in the order of the words
extract_keywords(desc) == SelectSeq(Split(desc), IsKeyword)

(***************************************************************************)
(* thefuzz.fuzz.token_set_ratio (rapidfuzz backend), as search calls it    *)
(***************************************************************************)
AlnumChars == Digits \cup LowerCase \cup UpperCase

\* utils.full_process: non-alphanumerics to spaces, lower case, strip
RECURSIVE AlnumOrSpace(_)
AlnumOrSpace(s) ==
  IF s = "" THEN ""
  ELSE (IF Ch(s, 1) \in AlnumChars THEN Ch(s, 1) ELSE " ")
         \o AlnumOrSpace(SubSeq(s, 2, Len(s)))

full_process(s) == Strip(Lower(AlnumOrSpace(s)))

\* the order of the characters left after full_process
CharOrder == "0123456789abcdefghijklmnopqrstuvwxyz"

Ord(c) == CHOOSE i \in 1..Len(CharOrder) : Ch(CharOrder, i) = c

\* a < b on Python strings
RECURSIVE StrLess(_, _)
StrLess(a, b) ==
  IF b = "" THEN FALSE
  ELSE IF a = "" THEN TRUE
  ELSE IF Ch(a, 1) = Ch(b, 1)
       THEN StrLess(SubSeq(a, 2, Len(a)), SubSeq(b, 2, Len(b)))
       ELSE Ord(Ch(a, 1)) < Ord(Ch(b, 1))

\* sorted(S) for a set of strings
RECURSIVE SortedStrings(_)
SortedStrings(S) ==
  IF S = {} THEN <<>>
  ELSE LET m == CHOOSE x \in S : \A y \in S \ {x} : StrLess(x, y)
       IN <<m>> \o SortedStrings(S \ {m})

SeqToSet(seq) == {seq[i] : i \in 1..Len(seq)}

Max(a, b) == IF a >= b THEN a ELSE b

Min(a, b) == IF a <= b THEN a ELSE b

\* one row of the longest-common-subsequence table: row[j + 1] is the LCS
\* length of the prefix of a ending at character c and the first j of b
\* (acc holds the j entries computed so far)
RECURSIVE LcsRow(_, _, _, _, _)
LcsRow(prev, c, b, j, acc) ==
  IF Len(acc) > Len(b) THEN acc
  ELSE LcsRow(prev, c, b, j + 1,
              Append(acc, IF c = Ch(b, j) THEN prev[j] + 1
                          ELSE Max(prev[j + 1], acc[j])))

RECURSIVE LcsRows(_, _, _, _)
LcsRows(a, b, i, prev) ==
  IF i > Len(a) \/ Len(prev) = 0 THEN prev
  ELSE LcsRows(a, b, i + 1, LcsRow(prev, Ch(a, i), b, 1, <<0>>))

LcsLen(a, b) == LcsRows(a, b, 1, [j \in 1..(Len(b) + 1) |-> 0])[Len(b) + 1]

\* rapidfuzz Indel distance
indel_distance(a, b) == Len(a) + Len(b) - 2 * LcsLen(a, b)

\* int(round(100 - 100 * dist / lensum)): Python rounds halves to even
norm_distance(dist, lensum) ==
  IF lensum = 0 THEN 100
  ELSE LET num == 100 * (lensum - dist)
           q == num \div lensum
           r == num % lensum
       IN IF 2 * r < lensum THEN q
          ELSE IF 2 * r > lensum THEN q + 1
          ELSE IF q % 2 = 0 THEN q ELSE q + 1

\* the three ratios of token_set_ratio and their maximum, from the joined
\* differences ab and ba and the length of the joined intersection
set_ratio_of(ab, ba, sect_len, sep) ==
  IF sect_len = 0
  THEN norm_distance(indel_distance(ab, ba), Len(ab) + Len(ba))
  ELSE Max(norm_distance(indel_distance(ab, ba),
                         2 * (sect_len + sep) + Len(ab) + Len(ba)),
           Max(norm_distance(sep + Len(ab), 2 * sect_len + sep + Len(ab)),
               norm_distance(sep + Len(ba), 2 * sect_len + sep + Len(ba))))

\* token_set_ratio on the two token sets
token_sets_ratio(ta, tb) ==
  IF ta = {} \/ tb = {} THEN 0
  ELSE IF ta \cap tb # {} /\ (ta \ tb = {} \/ tb \ ta = {}) THEN 100
  ELSE set_ratio_of(Join(SortedStrings(ta \ tb), " "),
                    Join(SortedStrings(tb \ ta), " "),
                    Len(Join(SortedStrings(ta \cap tb), " ")),
                    IF ta \cap tb # {} THEN 1 ELSE 0)

\* fuzz.token_set_ratio(s1, s2) with thefuzz's defaults (full_process)
token_set_ratio(s1, s2) ==
  token_sets_ratio(SeqToSet(Split(full_process(s1))),
                   SeqToSet(Split(full_process(s2))))

(***************************************************************************)
(* labor_matcher.py: LaborMatcher.search and LaborMatcher.best_match.      *)
(* An entry is a csv.DictReader row: a function from column names to       *)
(* strings.  Scores are in tenths: 10 * (integer signals) + 3 * fuzzy is   *)
(* 10 times the code's  score + fuzzy_score * 0.3,  and round(score, 1)    *)
(* leaves that number of tenths unchanged.                                 *)
(***************************************************************************)
combined_text(entry) ==
  Lower(entry.Section) \o " " \o Lower(entry.Category) \o " "
    \o Replace(Lower(entry.Item), "\"", "")

\* for target in targets: if target.lower() in combined: ...; break
RECURSIVE AnyTarget(_, _, _)
AnyTarget(targets, combined, k) ==
  IF k > Len(targets) THEN FALSE
  ELSE IF Contains(combined, Lower(targets[k])) THEN TRUE
  ELSE AnyTarget(targets, combined, k + 1)

\* the type-alias loop without its break: one tag per fragment found
RECURSIVE alias_reasons_each(_, _, _)
alias_reasons_each(query_norm, combined, k) ==
  IF k > Len(TYPE_ALIASES) THEN <<>>
  ELSE LET found == SelectSeq(TYPE_ALIASES[k].targets,
                              LAMBDA t : Contains(combined, Lower(t)))
       IN (IF Contains(query_norm, TYPE_ALIASES[k].alias)
           THEN [i \in 1..Len(found) |-> "type_match:" \o TYPE_ALIASES[k].alias]
           ELSE <<>>)
            \o alias_reasons_each(query_norm, combined, k + 1)

\* the type-alias loop: the reason tags it appends, one per alias that fires
RECURSIVE alias_reasons(_, _, _)
alias_reasons(query_norm, combined, k) ==
  IF k > Len(TYPE_ALIASES) THEN <<>>
  ELSE (IF /\ Contains(query_norm, TYPE_ALIASES[k].alias)
           /\ AnyTarget(TYPE_ALIASES[k].targets, combined, 1)
        THEN <<"type_match:" \o TYPE_ALIASES[k].alias>> ELSE <<>>)
         \o alias_reasons(query_norm, combined, k + 1)

conduit_types == <<"emt", "rigid", "pvc", "imc", "ent", "mc">>

\* the queried type taken as the first conduit type in the query's own order
RECURSIVE query_conduit_by_position(_, _)
query_conduit_by_position(query_norm, k) ==
  LET words == Split(query_norm)
  IN IF k > Len(words) THEN ""
     ELSE IF InSeq(words[k], conduit_types) THEN words[k]
     ELSE query_conduit_by_position(query_norm, k + 1)

\* query_conduit: the first conduit type, in the list's order, that is a
\* word of the query ("" for None)
RECURSIVE query_conduit(_, _)
query_conduit(query_norm, k) ==
  IF k > Len(conduit_types) THEN ""
  ELSE IF InSeq(conduit_types[k], Split(query_norm)) THEN conduit_types[k]
  ELSE query_conduit(query_norm, k + 1)

\* the penalty loop without its test  ct != query_conduit
RECURSIVE penalty_reasons_all(_, _, _)
penalty_reasons_all(qc, section_lower, k) ==
  IF qc = "" \/ k > Len(conduit_types) THEN <<>>
  ELSE (IF InSeq(conduit_types[k], Split(section_lower))
        THEN <<"wrong_type_penalty:" \o conduit_types[k]>> ELSE <<>>)
         \o penalty_reasons_all(qc, section_lower, k + 1)

\* the penalty loop: one reason tag per other conduit type named by a word
\* of the entry's section
RECURSIVE penalty_reasons(_, _, _)
penalty_reasons(qc, section_lower, k) ==
  IF qc = "" \/ k > Len(conduit_types) THEN <<>>
  ELSE (IF conduit_types[k] # qc /\ InSeq(conduit_types[k], Split(section_lower))
        THEN <<"wrong_type_penalty:" \o conduit_types[k]>> ELSE <<>>)
         \o penalty_reasons(qc, section_lower, k + 1)

\* the size block
size_reasons(query_size, entry) ==
  LET from_item == extract_size_from_item(entry.Item)
      entry_size == IF from_item # "" THEN from_item
                    ELSE extract_size(Replace(Lower(entry.Item), "\"", ""))
  IN IF query_size # "" /\ entry_size = query_size
     THEN <<"size_match:" \o query_size>> ELSE <<>>

\* the keyword loop
RECURSIVE keyword_reasons(_, _, _)
keyword_reasons(keywords, combined, k) ==
  IF k > Len(keywords) THEN <<>>
  ELSE (IF Contains(combined, keywords[k])
        THEN <<"keyword:" \o keywords[k]>> ELSE <<>>)
         \o keyword_reasons(keywords, combined, k + 1)

\* the entry's score (in tenths, before the  score > 20  test) and its
\* reason tags in the order appended, from what each signal appended
score_total(al, pe, sz, kw, fuzzy_score) ==
  [score |-> 10 * (40 * Len(al) - 25 * Len(pe) + 30 * Len(sz) + 15 * Len(kw))
               + 3 * fuzzy_score,
   fuzzy |-> fuzzy_score,
   reasons |-> al \o pe \o sz \o kw
                 \o (IF fuzzy_score > 60
                     THEN <<"fuzzy:" \o ToString(fuzzy_score)>> ELSE <<>>)]

\* the body of the loop over self.entries, for the normalised query
score_normalized(query_norm, entry, combined) ==
  score_total(alias_reasons(query_norm, combined, 1),
              penalty_reasons(query_conduit(query_norm, 1), Lower(entry.Section), 1),
              size_reasons(extract_size(query_norm), entry),
              keyword_reasons(extract_keywords(query_norm), combined, 1),
              token_set_ratio(query_norm, combined))

\* what search computes for one entry
score_entry(query, entry) ==
  score_normalized(normalize_description(query), entry, combined_text(entry))

(***************************************************************************)
(* State                                                                   *)
(***************************************************************************)
VARIABLES
  op,       \* the operation that ran last ("init" before any)
  qtyIn,    \* parse_quantity: the raw text, as the pieces it was typed from
  qtyOut,   \* parse_quantity: what the call produced
  extIn,    \* calculate_labor_extension: its four arguments
  extOut,   \* calculate_labor_extension: the hours returned
  dbFile,   \* the rows of the labor-unit CSV file on disk
  loaded,   \* whether the LaborMatcher has been constructed
  entries,  \* LaborMatcher.entries
  call,     \* the matcher call in progress: its arguments and what it returns
  parts,    \* the parts list given to the estimation pipelines
  estIn,    \* the condition and labor rate given to the pipelines
  cli,      \* run_estimation: whether it ran, what it raised, rows, statuses
  report,   \* generate_summary_report on the rows of run_estimation
  api,      \* POST /api/estimate: whether it ran, status code, rows, totals
  exported, \* generate_summary_report on the rows sent to /api/estimate/export
  normIn,   \* normalize_description: the description given
  normOut,  \* normalize_description: the text returned
  tables,   \* the list objects load_db has bound to self.entries, oldest first
  cur,      \* which of them self.entries names now (0: none yet)
  loading,  \* a load_db call in progress: the rows its new list holds so far
  scan,     \* a search call in progress: the list its loop iterates, its place
  labor_matcher, \* app.py's global _labor_matcher (0: None), an index of built
  built,    \* the LaborMatcher objects constructed so far, in order
  thread,   \* the request each server thread is handling, and where it is
  scoreIn,  \* the loop body of search: the query and the entry it scores
  scoreOut, \* the loop body of search: the score and the reason tags
  cache,    \* price_cache.json: the result stored under each cache key
  requested, \* the search terms requests.get was called for, in order
  lookup    \* the last call of scrape_platt and what it returned

qtyVars == <<qtyIn, qtyOut>>

extVars == <<extIn, extOut>>

matcherVars == <<dbFile, loaded, entries, call>>

estVars == <<parts, estIn, cli, report, api, exported>>

normVars == <<normIn, normOut>>

reloadVars == <<tables, cur, loading, scan>>

appVars == <<labor_matcher, built, thread>>

scoreVars == <<scoreIn, scoreOut>>

scrapeVars == <<cache, requested, lookup>>

sideVars == <<normVars, reloadVars, appVars, scoreVars, scrapeVars>>

vars == <<op, qtyIn, qtyOut, extIn, extOut, dbFile, loaded, entries, call,
          parts, estIn, cli, report, api, exported, normIn, normOut,
          tables, cur, loading, scan, labor_matcher, built, thread,
          scoreIn, scoreOut, cache, requested, lookup>>

(***************************************************************************)
(* Inputs                                                                  *)
(***************************************************************************)
\* quantity cells: lead \o num \o sep \o word \o tail
QtyLeads == {"", " ", "-", "+"}

QtyNums == {"", "0", "5", "40", "250", "2,500", "1.5", "5.", ".5", ",", ",."}

QtySeps == {"", " "}

QtyWords == {"", "feet", "ft", "foot", "ea", "each", "lot", "box",
             "EACH", "Ft", "garbage", "e"}

QtyTails == {"", " ", "s"}

QtyCells == [lead : QtyLeads, num : QtyNums, sep : QtySeps,
             word : QtyWords, tail : QtyTails]

QtyText(c) == c.lead \o c.num \o c.sep \o c.word \o c.tail

ExtQtys == {RInt(0), RInt(1), RInt(100), RInt(1000), RInt(250), Rat(5, 2),
            RInt(-5)}

ExtValues == {RInt(0), RInt(5), Rat(1, 4), Rat(3, 2), RInt(12)}

ExtQtyUnits == {"", "feet", "ea"}

\* quantities and labor values as doubles: float("3"), float("0.1")
F64Qtys == {F64Nat(1), F64Nat(3), F64Nat(7), F64Nat(9), F64Nat(250), F64Nat(1000)}

F64Values == {F64Decimal(1, 1), F64Decimal(25, 2), F64Decimal(15, 2),
              F64Decimal(45, 1), F64Decimal(50, 1), F64Decimal(75, 1)}

F64LaborUnits == {"E", "C", "M", "X"}

ExtLaborUnits == {"E", "C", "M", "", "e", "c", "m", "X"}

\* rows of the labor-unit table
Row(section, category, item, average, unit) ==
  [Section |-> section, Category |-> category, Item |-> item,
   Average |-> average, Unit |-> unit]

EntryPool ==
  { Row("EMT CONDUIT", "EMT", "3/4\"", "5.0", "C"),
    Row("PVC CONDUIT", "PVC", "3/4\"", "4.5", "C"),
    Row("EMT CONDUIT", "EMT", "1/2\"", "4.0", "C"),
    Row("EMT FITTINGS", "COUPLINGS", "3/4\"", "0.1", "E"),
    Row("WIRE", "THHN", "#10", "7.5", "M"),
    Row("BOXES", "SQUARE BOXES", "4\" SQUARE", "0.25", "") }

\* rows of a table whose header also has the Difficult column
RowWith(section, category, item, average, difficult, unit) ==
  [Section |-> section, Category |-> category, Item |-> item,
   Average |-> average, Difficult |-> difficult, Unit |-> unit]

ConditionPool ==
  { RowWith("EMT CONDUIT", "EMT", "3/4\"", "5.0", "6.5", "C"),
    RowWith("WIRE", "THHN", "#10", "7.5", "9.0", "M") }

\* the longest table drawn
MaxTable == 3

Tables == UNION { [1..n -> EntryPool] : n \in 0..MaxTable }

Queries == {"", "3/4 emt", "3/4\" EMT", "emt", "pvc 3/4", "garbage", "cond",
            "a wire", "3/4 emt coupling", "emt emt", "conduit", "4 square box",
            "4", "3/4 3/4 rigid", "3/4 pvc to emt"}

\* the largest top_n drawn; int(request.args.get('n', 10)) in app.py and
\* the top_n parameter itself accept any integer
MaxTopN == 3

TopNs == (-1)..MaxTopN

(***************************************************************************)
(* LaborMatcher.search and LaborMatcher.best_match                         *)
(***************************************************************************)
\* score_entry on the queries and rows of the model, evaluated once
\* entries for the loop body on its own: sections that name one conduit
\* type, two, or none; a type named by the category only; items with
\* fractions, mixed numbers, whole numbers and other text
ScorePool ==
  EntryPool \cup
  { Row("RIGID STEEL CONDUIT", "RIGID", "3/4\"", "6.0", "C"),
    Row("PVC COATED RIGID CONDUIT", "FITTINGS", "1 1/2\"", "9.0", "C"),
    Row("FITTINGS", "PVC", "3/4\"", "0.2", "E"),
    Row("MC CABLE", "MC", "12-2", "3.0", "C"),
    Row("BOXES", "SQUARE BOXES", "4\"", "0.25", "E"),
    Row("BOXES", "SQUARE BOXES", "3/4\"", "0.25", "E"),
    Row("EMT CONDUIT", "EMT", "1 1/2\"", "7.0", "C"),
    Row("HANGERS", "BEAM CLAMP", "1/4\"", "0.15", "E") }

ScoreQueries ==
  {"", "3/4 emt", "emt", "3/4 pvc to emt", "pvc emt 3/4", "rigid 3/4",
   "3/4 emtx", "emt, 3/4", "3/4 coupling", "emt emt", "emt emt coupling",
   "4\" square box 3/4\" ko", "1 1/2 emt", "mc cable", "conduit",
   "3/4 conduit", "the emt a", "garbage", "beam clamp 1/4", "1.25 rigid"}

Scored ==
  [q \in Queries \cup ScoreQueries, e \in ScorePool \cup ConditionPool |->
     score_entry(q, e)]

\* the loop over self.entries without the test  score > 20
RECURSIVE candidates_unfiltered(_, _, _)
candidates_unfiltered(table, query, i) ==
  IF i > Len(table) THEN <<>>
  ELSE << [idx |-> i, entry |-> table[i],
           score |-> Scored[query, table[i]].score,
           reason |-> Join(Scored[query, table[i]].reasons, ", ")] >>
         \o candidates_unfiltered(table, query, i + 1)

\* the loop over self.entries keeping every entry with a positive score
RECURSIVE candidates_positive(_, _, _)
candidates_positive(table, query, i) ==
  IF i > Len(table) THEN <<>>
  ELSE (IF Scored[query, table[i]].score > 0
        THEN << [idx |-> i, entry |-> table[i],
                 score |-> Scored[query, table[i]].score,
                 reason |-> Join(Scored[query, table[i]].reasons, ", ")] >>
        ELSE <<>>)
         \o candidates_positive(table, query, i + 1)

\* the loop over self.entries with its test  score > 20 : the tuples
\* (entry, round(score, 1), ', '.join(reasons)) appended to results, in
\* table order; idx is the identity of the row object within the table
RECURSIVE candidates(_, _, _)
candidates(table, query, i) ==
  IF i > Len(table) THEN <<>>
  ELSE (IF Scored[query, table[i]].score > 200
        THEN << [idx |-> i, entry |-> table[i],
                 score |-> Scored[query, table[i]].score,
                 reason |-> Join(Scored[query, table[i]].reasons, ", ")] >>
        ELSE <<>>)
         \o candidates(table, query, i + 1)

\* where list.sort(key=score, reverse=True) puts x among the elements
\* that precede it in the list: behind every element that scores as much
sort_insert(sorted, x) ==
  LET k == Cardinality({i \in 1..Len(sorted) : sorted[i].score >= x.score})
  IN SubSeq(sorted, 1, k) \o <<x>> \o SubSeq(sorted, k + 1, Len(sorted))

\* results.sort(key=lambda x: x[1], reverse=True)
RECURSIVE sort_by_score(_)
sort_by_score(results) ==
  IF Len(results) = 0 THEN <<>>
  ELSE sort_insert(sort_by_score(SubSeq(results, 1, Len(results) - 1)),
                   results[Len(results)])

\* the slice results[:top_n]
slice_to(results, top_n) ==
  IF top_n >= 0 THEN SubSeq(results, 1, Min(top_n, Len(results)))
  ELSE SubSeq(results, 1, Max(Len(results) + top_n, 0))

\* LaborMatcher.search
search(table, query, top_n) ==
  slice_to(sort_by_score(candidates(table, query, 1)), top_n)

\* best_match returning the raw score as the confidence
best_match_uncapped(table, query) ==
  LET results == search(table, query, 1)
  IN IF Len(results) = 0
     THEN [entry |-> <<>>, confidence |-> 0, reason |-> "No match found"]
     ELSE [entry |-> <<results[1].entry>>,
           confidence |-> results[1].score,
           reason |-> results[1].reason]

\* best_match naming the query in its no-match reason
best_match_query_reason(table, query) ==
  LET results == search(table, query, 1)
  IN IF Len(results) = 0
     THEN [entry |-> <<>>, confidence |-> 0,
           reason |-> "No match found for " \o query]
     ELSE [entry |-> <<results[1].entry>>,
           confidence |-> Min(1000, results[1].score),
           reason |-> results[1].reason]

\* LaborMatcher.best_match; entry is <<>> for None, <<row>> otherwise
best_match(table, query) ==
  LET results == search(table, query, 1)
  IN IF Len(results) = 0
     THEN [entry |-> <<>>, confidence |-> 0, reason |-> "No match found"]
     ELSE [entry |-> <<results[1].entry>>,
           confidence |-> Min(1000, results[1].score),
           reason |-> results[1].reason]

(***************************************************************************)
(* Initial states and the operations of cost_calculator.py.  Both          *)
(* functions are pure: the arguments of the call are drawn in the initial  *)
(* state and the action applies the function to them.                      *)
(***************************************************************************)
NoQtyIn == [lead |-> "", num |-> "", sep |-> "", word |-> "", tail |-> ""]

NoQty == [exc |-> "none", val |-> RInt(0), unit |-> ""]

NoExtIn == [qty |-> RInt(0), qty_unit |-> "", labor_value |-> RInt(0),
            labor_unit |-> ""]

NoCall == [query |-> "", top_n |-> 0, results |-> <<>>,
           best |-> [entry |-> <<>>, confidence |-> 0, reason |-> ""]]

NoCalc == qtyIn = NoQtyIn /\ qtyOut = NoQty /\ extIn = NoExtIn /\ extOut = RInt(0)

NoMatcher == dbFile = <<>> /\ loaded = FALSE /\ entries = <<>> /\ call = NoCall

NoEstIn == [condition |-> "Average", labor_rate |-> RInt(0)]

NoCli == [ran |-> FALSE, exc |-> "none", results |-> <<>>, status |-> <<>>]

NoReport == [ran |-> FALSE, needs_review |-> <<>>, low_confidence |-> <<>>,
             good_matches |-> <<>>]

NoTotals == [total_labor_hours |-> RInt(0), total_labor_cost |-> RInt(0),
             total_material_cost |-> RInt(0), total_cost |-> RInt(0),
             good_matches |-> 0, low_confidence |-> 0, needs_review |-> 0,
             part_count |-> 0]

NoApi == [ran |-> FALSE, code |-> 0, results |-> <<>>, totals |-> NoTotals]

NoEst ==
  /\ parts = <<>>
  /\ estIn = NoEstIn
  /\ cli = NoCli
  /\ report = NoReport
  /\ api = NoApi
  /\ exported = NoReport

NoNorm == normIn = "" /\ normOut = ""

NoLoading == [active |-> FALSE, rows |-> <<>>, left |-> <<>>]

NoScan == [active |-> FALSE, done |-> FALSE, query |-> "", top_n |-> 0,
           list |-> 0, i |-> 0, found |-> <<>>, results |-> <<>>]

NoReload == tables = <<>> /\ cur = 0 /\ loading = NoLoading /\ scan = NoScan

\* the threads of the development server that serve requests
NThreads == 2

Threads == 1..NThreads

NoThread == [pc |-> "idle", route |-> "", m |-> 0]

NoApp == labor_matcher = 0 /\ built = <<>> /\ thread = [t \in Threads |-> NoThread]

NoScoreIn == [query |-> "", entry |-> <<>>]

NoScoreOut == [score |-> 0, fuzzy |-> 0, reasons |-> <<>>]

NoScore == scoreIn = NoScoreIn /\ scoreOut = NoScoreOut

NoLookup == [query |-> "", platt_id |-> "", hit |-> FALSE, result |-> <<>>]

NoScrape == cache = <<>> /\ requested = <<>> /\ lookup = NoLookup

NoSide == NoNorm /\ NoReload /\ NoApp /\ NoScore /\ NoScrape

InitQty ==
  /\ op = "init"
  /\ qtyIn \in QtyCells
  /\ qtyOut = NoQty
  /\ extIn = NoExtIn
  /\ extOut = RInt(0)
  /\ NoMatcher
  /\ NoEst
  /\ NoSide

InitExt ==
  /\ op = "init"
  /\ qtyIn = NoQtyIn
  /\ qtyOut = NoQty
  /\ extIn \in [qty : ExtQtys, qty_unit : ExtQtyUnits, labor_value : ExtValues,
                labor_unit : ExtLaborUnits]
  /\ extOut = RInt(0)
  /\ NoMatcher
  /\ NoEst
  /\ NoSide

\* the call parse_quantity(raw)
ParseQuantity ==
  /\ op = "init"
  /\ op' = "parse_quantity"
  /\ qtyOut' = parse_quantity(QtyText(qtyIn))
  /\ UNCHANGED <<sideVars, qtyIn, extVars, matcherVars, estVars>>

\* the call calculate_labor_extension(qty, qty_unit, labor_value, labor_unit)
LaborExtension ==
  /\ op = "init"
  /\ op' = "calculate_labor_extension"
  /\ extOut' = calculate_labor_extension(extIn.qty, extIn.qty_unit,
                                         extIn.labor_value, extIn.labor_unit)
  /\ UNCHANGED <<sideVars, extIn, qtyVars, matcherVars, estVars>>

\* the same call, computed on doubles
LaborExtensionF64 ==
  /\ op = "init"
  /\ op' = "calculate_labor_extension_f64"
  /\ extOut' = calculate_labor_extension_f64(extIn.qty, extIn.qty_unit,
                                             extIn.labor_value, extIn.labor_unit)
  /\ UNCHANGED <<sideVars, extIn, qtyVars, matcherVars, estVars>>

NextQty == ParseQuantity

SpecQty == InitQty /\ [][NextQty]_vars

NextExt == LaborExtension

SpecExt == InitExt /\ [][NextExt]_vars

InitF64 ==
  /\ op = "init"
  /\ qtyIn = NoQtyIn
  /\ qtyOut = NoQty
  /\ extIn \in [qty : F64Qtys, qty_unit : {"", "feet"}, labor_value : F64Values,
                labor_unit : F64LaborUnits]
  /\ extOut = F64Zero
  /\ NoMatcher
  /\ NoEst
  /\ NoSide

NextF64 == LaborExtensionF64

SpecF64 == InitF64 /\ [][NextF64]_vars

\* sizes as they are typed in descriptions
NormSizes == {".75", "0.75", "1.5", ".5", "0.5", "1.25", "2.5", "3.5", "10.5",
              "1.50", "x.75", "21.5", "0.75x", "3/4"}

\* descriptions: a size alone, before and after a word, between two words,
\* and with an inch mark and capitals
NormDescs ==
  UNION {{z, z \o " emt", "emt " \o z, "emt " \o z \o " conduit",
          z \o "\" EMT"} : z \in NormSizes}

InitNorm ==
  /\ op = "init"
  /\ NoCalc
  /\ NoMatcher
  /\ NoEst
  /\ NoScore
  /\ NoScrape
  /\ normIn \in NormDescs
  /\ normOut = ""
  /\ NoReload
  /\ NoApp

\* the call normalize_description(desc)
Normalize ==
  /\ op = "init"
  /\ op' = "normalize_description"
  /\ normOut' = normalize_description(normIn)
  /\ UNCHANGED <<normIn, qtyVars, extVars, matcherVars, estVars, reloadVars,
                 appVars,
                 scoreVars, scrapeVars>>

NextNorm == Normalize

SpecNorm == InitNorm /\ [][NextNorm]_vars

(***************************************************************************)
(* price_scraper.py: scrape_platt and its cache file.  cache is the        *)
(* content of data/cache/price_cache.json, the items of the JSON object in *)
(* the order written; requested is the log of the search terms sent to     *)
(* the vendor; lookup is the last call and what it returned.  A call runs  *)
(* from _load_cache to return without another call between (sequential     *)
(* callers).                                                               *)
(***************************************************************************)
\* _cache_key without its lower() and strip()
cache_key_raw(vendor, query) == vendor \o "::" \o query

\* _cache_key
cache_key(vendor, query) == vendor \o "::" \o Strip(Lower(query))

\* key in cache
CacheHas(c, key) == \E i \in 1..Len(c) : c[i].key = key

\* cache[key]
CacheGet(c, key) == c[CHOOSE i \in 1..Len(c) : c[i].key = key].value

\* urllib.parse.quote_plus on the characters of the terms drawn
RECURSIVE quote_plus(_)
quote_plus(s) ==
  IF s = "" THEN ""
  ELSE (CASE Ch(s, 1) = " " -> "+"
          [] Ch(s, 1) = "/" -> "%2F"
          [] Ch(s, 1) = "#" -> "%23"
          [] Ch(s, 1) = "\"" -> "%22"
          [] OTHER -> Ch(s, 1)) \o quote_plus(SubSeq(s, 2, Len(s)))

\* the result dict scrape_platt starts from; error <<>> is None
new_result(query, platt_id) ==
  [vendor |-> "Platt", name |-> "", price |-> 0,
   price_str |-> "Login for pricing", unit |-> "", stock |-> "Unknown",
   url |-> "", query |-> query, platt_item_id |-> platt_id,
   cat_number |-> <<>>, error |-> <<>>]

search_url(platt_id, query) ==
  "https://www.platt.com/s/search?q="
    \o quote_plus(IF platt_id # "" THEN platt_id ELSE query)

\* the product the parser settles on: the one with the given id, else the
\* first
chosen_product(products, platt_id) ==
  IF platt_id # "" /\ \E i \in 1..Len(products) : products[i].item_id = platt_id
  THEN products[CHOOSE i \in 1..Len(products) :
                  /\ products[i].item_id = platt_id
                  /\ \A j \in 1..(i - 1) : products[j].item_id # platt_id]
  ELSE products[1]

\* _parse_platt_search on a page with the given product cards (distinct
\* links with a name); item_no and cat are what the page prints after the
\* chosen link, <<>> when it prints none
parse_platt_search(page, result, final_url, platt_id) ==
  IF Len(page.products) = 0
  THEN [result EXCEPT !.url = final_url,
          !.error = <<"No products found - try different search terms">>]
  ELSE LET p == chosen_product(page.products, platt_id)
       IN [result EXCEPT
             !.name = p.name,
             !.url = "https://www.platt.com" \o p.href,
             !.platt_item_id = IF p.item_no # <<>> THEN p.item_no[1]
                               ELSE p.item_id,
             !.cat_number = p.cat,
             !.price_str = "Login for pricing",
             !.error = <<>>]

\* what requests.get did: a response with a status code, or a
\* requests.RequestException
Product(item_id, name, item_no, cat) ==
  [item_id |-> item_id, name |-> name,
   href |-> "/p/" \o item_id \o "/x", item_no |-> item_no, cat |-> cat]

Responses ==
  { [status |-> 403, exc |-> "", products |-> <<>>],
    [status |-> 500, exc |-> "", products |-> <<>>],
    [status |-> 0, exc |-> "timed out", products |-> <<>>],
    [status |-> 200, exc |-> "", products |-> <<>>],
    [status |-> 200, exc |-> "",
     products |-> << Product("0100", "EMT 3/4", <<>>, <<>>),
                     Product("0652", "EMT 1/2", <<"0652">>, <<"E-12">>) >>] }

\* the result after the try block
fetched(query, platt_id, r) ==
  LET result == [new_result(query, platt_id) EXCEPT
                   !.url = search_url(platt_id, query)]
  IN IF r.exc # "" THEN [result EXCEPT !.error = <<r.exc>>]
     ELSE IF r.status = 403
     THEN [result EXCEPT
             !.error = <<"Access denied (403) - may need manual lookup">>]
     ELSE IF r.status = 200
     THEN parse_platt_search(r, result, search_url(platt_id, query), platt_id)
     ELSE [result EXCEPT !.error = <<"HTTP 500">>]

ScrapeQueries == {"3/4 EMT", " 3/4 emt "}

ScrapeIds == {"", "0652", " 0652"}

\* the most requests sent in one run of the model
MaxRequests == 3

InitScrape ==
  /\ op = "init"
  /\ NoCalc
  /\ NoMatcher
  /\ NoEst
  /\ NoNorm
  /\ NoReload
  /\ NoApp
  /\ NoScore
  /\ NoScrape

\* scrape_platt(query, platt_id), served from the cache file
ScrapeHit(query, platt_id) ==
  LET search_term == IF platt_id # "" THEN platt_id ELSE query
      key == cache_key("platt", search_term)
  IN /\ CacheHas(cache, key)
     /\ op' = "scrape_platt"
     /\ lookup' = [query |-> query, platt_id |-> platt_id, hit |-> TRUE,
                   result |-> <<CacheGet(cache, key)>>]
     /\ UNCHANGED <<cache, requested>>

\* scrape_platt(query, platt_id) with no entry under the key: one request,
\* whose outcome r is stored under the key and returned
ScrapeMiss(query, platt_id, r) ==
  LET search_term == IF platt_id # "" THEN platt_id ELSE query
      key == cache_key("platt", search_term)
      result == fetched(query, platt_id, r)
  IN /\ ~CacheHas(cache, key)
     /\ Len(requested) < MaxRequests
     /\ op' = "scrape_platt"
     /\ requested' = Append(requested, search_term)
     /\ cache' = Append(cache, [key |-> key, value |-> result])
     /\ lookup' = [query |-> query, platt_id |-> platt_id, hit |-> FALSE,
                   result |-> <<result>>]

ScrapePlatt ==
  /\ \E query \in ScrapeQueries, platt_id \in ScrapeIds :
       \/ ScrapeHit(query, platt_id)
       \/ \E r \in Responses : ScrapeMiss(query, platt_id, r)
  /\ UNCHANGED <<qtyVars, extVars, matcherVars, estVars, normVars, reloadVars,
                 appVars, scoreVars>>

NextScrape == ScrapePlatt

SpecScrape == InitScrape /\ [][NextScrape]_vars

\* the body of the loop of search, for one query and one entry
InitScore ==
  /\ op = "init"
  /\ NoCalc
  /\ NoMatcher
  /\ NoEst
  /\ NoNorm
  /\ NoReload
  /\ NoApp
  /\ NoScrape
  /\ scoreIn \in [query : ScoreQueries, entry : ScorePool]
  /\ scoreOut = NoScoreOut

ScoreEntry ==
  /\ op = "init"
  /\ op' = "score"
  /\ scoreOut' = Scored[scoreIn.query, scoreIn.entry]
  /\ UNCHANGED <<scoreIn, qtyVars, extVars, matcherVars, estVars, normVars,
                 reloadVars, appVars, scrapeVars>>

NextScore == ScoreEntry

SpecScore == InitScore /\ [][NextScore]_vars

(***************************************************************************)
(* load_db called again on a constructed matcher while a search runs.      *)
(* A Python list is an object: self.entries names one, and the loop        *)
(*   for entry in self.entries:                                            *)
(* evaluates self.entries once and then iterates that object by index.     *)
(* tables holds the list objects load_db has bound to self.entries, cur    *)
(* is the one it names now.  Threads interleave between the steps below.   *)
(***************************************************************************)
\* contents the CSV file takes over time
ReloadTables ==
  { << Row("EMT CONDUIT", "EMT", "3/4\"", "5.0", "C"),
       Row("PVC CONDUIT", "PVC", "3/4\"", "4.5", "C") >>,
    << Row("PVC CONDUIT", "PVC", "3/4\"", "4.5", "C"),
       Row("EMT CONDUIT", "EMT", "1/2\"", "4.0", "C") >>,
    << Row("EMT FITTINGS", "COUPLINGS", "3/4\"", "0.1", "E") >> }

ReloadQueries == {"3/4 emt", "pvc 3/4"}

ReloadTopN == {1, 3}

\* the calls of load_db after the constructor's
MaxReloads == 2

InitReload ==
  /\ op = "init"
  /\ NoCalc
  /\ NoEst
  /\ NoScore
  /\ NoScrape
  /\ NoNorm
  /\ NoApp
  /\ dbFile \in ReloadTables
  /\ loaded = TRUE
  /\ entries = dbFile
  /\ call = NoCall
  /\ tables = <<dbFile>>
  /\ cur = 1
  /\ loading = NoLoading
  /\ scan = NoScan

\* the source file is replaced by a refreshed one, between two loads
RefreshFile ==
  /\ ~loading.active
  /\ op' = "refresh"
  /\ dbFile' \in ReloadTables \ {dbFile}
  /\ UNCHANGED <<loaded, entries, call, tables, cur, loading, scan, qtyVars,
                 extVars, estVars, normVars, appVars,
                 scoreVars, scrapeVars>>

\* load_db: open(self.db_path)
LoadOpen ==
  /\ ~loading.active
  /\ Len(tables) <= MaxReloads
  /\ op' = "load_db"
  /\ loading' = [active |-> TRUE, rows |-> <<>>, left |-> dbFile]
  /\ UNCHANGED <<dbFile, loaded, entries, call, tables, cur, scan, qtyVars,
                 extVars, estVars, normVars, appVars,
                 scoreVars, scrapeVars>>

\* load_db: list(csv.DictReader(f)) takes one more row into the list it
\* is building, which nothing else names yet
LoadRow ==
  /\ loading.active
  /\ loading.left # <<>>
  /\ op' = "load_db"
  /\ loading' = [loading EXCEPT !.rows = Append(@, Head(loading.left)),
                                !.left = Tail(@)]
  /\ UNCHANGED <<dbFile, loaded, entries, call, tables, cur, scan, qtyVars,
                 extVars, estVars, normVars, appVars,
                 scoreVars, scrapeVars>>

\* load_db writing the rows into the list self.entries names already
LoadBindInPlace ==
  /\ loading.active
  /\ loading.left = <<>>
  /\ op' = "load_db"
  /\ tables' = [tables EXCEPT ![cur] = loading.rows]
  /\ entries' = loading.rows
  /\ loading' = NoLoading
  /\ UNCHANGED <<dbFile, loaded, call, cur, scan, qtyVars, extVars, estVars,
                 normVars, appVars,
                 scoreVars, scrapeVars>>

\* load_db: self.entries = <the finished list>
LoadBind ==
  /\ loading.active
  /\ loading.left = <<>>
  /\ op' = "load_db"
  /\ tables' = Append(tables, loading.rows)
  /\ cur' = Len(tables) + 1
  /\ entries' = loading.rows
  /\ loading' = NoLoading
  /\ UNCHANGED <<dbFile, loaded, call, scan, qtyVars, extVars, estVars,
                 normVars, appVars,
                 scoreVars, scrapeVars>>

\* search: the query is normalised and the loop takes self.entries
SearchEnter ==
  /\ ~scan.active
  /\ op' = "search_enter"
  /\ \E q \in ReloadQueries, n \in ReloadTopN :
       scan' = [active |-> TRUE, done |-> FALSE, query |-> q, top_n |-> n,
                list |-> cur, i |-> 1, found |-> <<>>, results |-> <<>>]
  /\ UNCHANGED <<dbFile, loaded, entries, call, tables, cur, loading, qtyVars,
                 extVars, estVars, normVars, appVars,
                 scoreVars, scrapeVars>>

\* search: one turn of the loop, on the next entry of the list it iterates
SearchEntry ==
  /\ scan.active
  /\ scan.i <= Len(tables[scan.list])
  /\ op' = "search_entry"
  /\ LET entry == tables[scan.list][scan.i]
         hit == [idx |-> scan.i, entry |-> entry,
                 score |-> Scored[scan.query, entry].score,
                 reason |-> Join(Scored[scan.query, entry].reasons, ", ")]
     IN scan' = [scan EXCEPT !.i = @ + 1,
                             !.found = IF hit.score > 200 THEN Append(@, hit)
                                       ELSE @]
  /\ UNCHANGED <<dbFile, loaded, entries, call, tables, cur, loading, qtyVars,
                 extVars, estVars, normVars, appVars,
                 scoreVars, scrapeVars>>

\* search: the list is exhausted; sort, slice and return
SearchReturn ==
  /\ scan.active
  /\ scan.i > Len(tables[scan.list])
  /\ op' = "search"
  /\ scan' = [scan EXCEPT !.active = FALSE, !.done = TRUE,
                          !.results = slice_to(sort_by_score(scan.found),
                                               scan.top_n)]
  /\ UNCHANGED <<dbFile, loaded, entries, call, tables, cur, loading, qtyVars,
                 extVars, estVars, normVars, appVars,
                 scoreVars, scrapeVars>>

NextReload ==
  \/ RefreshFile
  \/ LoadOpen
  \/ LoadRow
  \/ LoadBind
  \/ SearchEnter
  \/ SearchEntry
  \/ SearchReturn

SpecReload == InitReload /\ [][NextReload]_vars

(***************************************************************************)
(* app.py: the lazily built matcher, shared by the threads of the server.  *)
(* app.run(host, port, debug=True) serves each request on a thread of its  *)
(* own, and get_matcher takes no lock: the threads interleave between the  *)
(* steps below.                                                            *)
(***************************************************************************)
AppTables ==
  { << Row("EMT CONDUIT", "EMT", "3/4\"", "5.0", "C") >>,
    << Row("PVC CONDUIT", "PVC", "3/4\"", "4.5", "C"),
       Row("EMT CONDUIT", "EMT", "1/2\"", "4.0", "C") >> }

AppRoutes == {"labor_search", "run_estimate"}

AppQueries == {"3/4 emt", "garbage"}

InitApp ==
  /\ op = "init"
  /\ NoCalc
  /\ NoEst
  /\ NoScore
  /\ NoScrape
  /\ NoNorm
  /\ NoReload
  /\ dbFile \in AppTables
  /\ loaded = FALSE
  /\ entries = <<>>
  /\ call = NoCall
  /\ labor_matcher = 0
  /\ built = <<>>
  /\ thread = [t \in Threads |-> NoThread]

\* a request for one of the two routes that match reaches thread t
Request(t) ==
  /\ thread[t].pc = "idle"
  /\ op' = "request"
  /\ \E r \in AppRoutes :
       thread' = [thread EXCEPT ![t] = [pc |-> "test", route |-> r, m |-> 0]]
  /\ UNCHANGED <<labor_matcher, built, qtyVars, extVars, matcherVars, estVars,
                 normVars, reloadVars,
                 scoreVars, scrapeVars>>

\* get_matcher: if _labor_matcher is None
TestNone(t) ==
  /\ thread[t].pc = "test"
  /\ op' = "get_matcher"
  /\ thread' = [thread EXCEPT ![t].pc = IF labor_matcher = 0 THEN "new"
                                        ELSE "return"]
  /\ UNCHANGED <<labor_matcher, built, qtyVars, extVars, matcherVars, estVars,
                 normVars, reloadVars,
                 scoreVars, scrapeVars>>

\* LaborMatcher.__init__: a new object, self.entries = []
NewMatcher(t) ==
  /\ thread[t].pc = "new"
  /\ op' = "__init__"
  /\ built' = Append(built, [entries |-> <<>>, loaded |-> FALSE])
  /\ thread' = [thread EXCEPT ![t].pc = "load", ![t].m = Len(built) + 1]
  /\ UNCHANGED <<labor_matcher, qtyVars, extVars, matcherVars, estVars,
                 normVars, reloadVars,
                 scoreVars, scrapeVars>>

\* LaborMatcher.__init__: self.load_db()
LoadMatcher(t) ==
  /\ thread[t].pc = "load"
  /\ op' = "load_db"
  /\ built' = [built EXCEPT ![thread[t].m] = [entries |-> dbFile,
                                              loaded |-> TRUE]]
  /\ thread' = [thread EXCEPT ![t].pc = "bind"]
  /\ UNCHANGED <<labor_matcher, qtyVars, extVars, matcherVars, estVars,
                 normVars, reloadVars,
                 scoreVars, scrapeVars>>

\* get_matcher: _labor_matcher = <the constructed matcher>
BindMatcher(t) ==
  /\ thread[t].pc = "bind"
  /\ op' = "get_matcher"
  /\ labor_matcher' = thread[t].m
  /\ thread' = [thread EXCEPT ![t].pc = "return"]
  /\ UNCHANGED <<built, qtyVars, extVars, matcherVars, estVars, normVars,
                 reloadVars,
                 scoreVars, scrapeVars>>

\* get_matcher: return _labor_matcher
ReturnMatcher(t) ==
  /\ thread[t].pc = "return"
  /\ op' = "get_matcher"
  /\ thread' = [thread EXCEPT ![t].pc = "match", ![t].m = labor_matcher]
  /\ UNCHANGED <<labor_matcher, built, qtyVars, extVars, matcherVars, estVars,
                 normVars, reloadVars,
                 scoreVars, scrapeVars>>

\* labor_search: matcher.search(query, top_n); run_estimate:
\* matcher.best_match(desc); the request is answered
Match(t) ==
  /\ thread[t].pc = "match"
  /\ op' = thread[t].route
  /\ \E q \in AppQueries :
       call' = IF thread[t].route = "labor_search"
               THEN [NoCall EXCEPT !.query = q, !.top_n = MaxTopN,
                       !.results = search(built[thread[t].m].entries, q, MaxTopN)]
               ELSE [NoCall EXCEPT !.query = q,
                       !.best = best_match(built[thread[t].m].entries, q)]
  /\ thread' = [thread EXCEPT ![t] = NoThread]
  /\ UNCHANGED <<labor_matcher, built, dbFile, loaded, entries, qtyVars,
                 extVars, estVars, normVars, reloadVars,
                 scoreVars, scrapeVars>>

NextApp ==
  \E t \in Threads :
    \/ Request(t)
    \/ TestNone(t)
    \/ NewMatcher(t)
    \/ LoadMatcher(t)
    \/ BindMatcher(t)
    \/ ReturnMatcher(t)
    \/ Match(t)

SpecApp == InitApp /\ [][NextApp]_vars

(***************************************************************************)
(* The matcher as a state machine: the table file is on disk, a            *)
(* LaborMatcher is constructed from it, then calls are made one at a time. *)
(***************************************************************************)
Init ==
  /\ op = "init"
  /\ NoCalc
  /\ dbFile \in Tables
  /\ loaded = FALSE
  /\ entries = <<>>
  /\ call = NoCall
  /\ NoEst
  /\ NoSide

\* LaborMatcher.__init__ and load_db: self.entries = list(csv.DictReader(f))
Construct ==
  /\ op = "init"
  /\ ~loaded
  /\ op' = "construct"
  /\ loaded' = TRUE
  /\ entries' = dbFile
  /\ UNCHANGED <<sideVars, dbFile, call, qtyVars, extVars, estVars>>

Idle == loaded /\ op \in {"construct", "return"}

\* a call matcher.search(query, top_n) that reverses self.entries in place
SearchReversesTable ==
  \E q \in Queries, n \in TopNs :
    /\ Idle
    /\ op' = "search"
    /\ call' = [NoCall EXCEPT !.query = q, !.top_n = n,
                              !.results = search(entries, q, n)]
    /\ entries' = [i \in 1..Len(entries) |-> entries[Len(entries) + 1 - i]]
    /\ UNCHANGED <<sideVars, dbFile, loaded, qtyVars, extVars, estVars>>

\* a call matcher.search(query, top_n)
Search ==
  \E q \in Queries, n \in TopNs :
    /\ Idle
    /\ op' = "search"
    /\ call' = [NoCall EXCEPT !.query = q, !.top_n = n,
                              !.results = search(entries, q, n)]
    /\ UNCHANGED <<sideVars, dbFile, loaded, entries, qtyVars, extVars,
                   estVars>>

\* a call matcher.best_match(query)
BestMatch ==
  \E q \in Queries :
    /\ Idle
    /\ op' = "best_match"
    /\ call' = [NoCall EXCEPT !.query = q, !.top_n = 1,
                              !.best = best_match(entries, q)]
    /\ UNCHANGED <<sideVars, dbFile, loaded, entries, qtyVars, extVars,
                   estVars>>

\* the caller has taken the result; the call's locals are gone
Return ==
  /\ op \in {"search", "best_match"}
  /\ op' = "return"
  /\ call' = NoCall
  /\ UNCHANGED <<sideVars, dbFile, loaded, entries, qtyVars, extVars,
                 estVars>>

Next == Construct \/ Search \/ BestMatch \/ Return

Spec == Init /\ [][Next]_vars

(***************************************************************************)
(* The estimation pipelines: run_estimation (command line), its summary    *)
(* report, POST /api/estimate and the export of its rows.  Price lookup    *)
(* is off (fetch_prices false), so every material cost is 0.               *)
(***************************************************************************)
\* round(x, 2): to the nearest hundredth, a tie to the even hundredth
Round2(x) ==
  LET q == (x.n * 100) \div x.d
      r == (x.n * 100) - q * x.d
  IN IF 2 * r < x.d THEN Rat(q, 100)
     ELSE IF 2 * r > x.d THEN Rat(q + 1, 100)
     ELSE IF q % 2 = 0 THEN Rat(q, 100) ELSE Rat(q + 1, 100)

\* float(labor_entry.get('Average', 0)), whatever the condition
labor_val_average(labor_entry, condition) ==
  IF "Average" \in DOMAIN labor_entry THEN PyFloat(labor_entry["Average"])
  ELSE [ok |-> TRUE, val |-> RInt(0)]

\* float(labor_entry.get(condition, labor_entry.get('Average', 0)))
labor_val(labor_entry, condition) ==
  IF condition \in DOMAIN labor_entry THEN PyFloat(labor_entry[condition])
  ELSE IF "Average" \in DOMAIN labor_entry THEN PyFloat(labor_entry["Average"])
  ELSE [ok |-> TRUE, val |-> RInt(0)]

\* f"{labor_entry['Section']} > {labor_entry['Category']} > {labor_entry['Item']}"
labor_match(labor_entry) ==
  labor_entry.Section \o " > " \o labor_entry.Category \o " > " \o labor_entry.Item

\* run_estimation: the row of a matched part, price lookup off
cli_costed_row(desc, qty, qty_unit, labor_entry, confidence, value, hours, cost) ==
  [Part |-> desc, Quantity |-> qty, Qty_Unit |-> qty_unit,
   Labor_Match |-> labor_match(labor_entry),
   Labor_Confidence |-> confidence,
   Labor_Value |-> value,
   Labor_Unit |-> labor_entry.Unit,
   Labor_Hours |-> hours,
   Labor_Cost |-> cost,
   Material_Cost |-> RInt(0),
   Total_Cost |-> Round2(RAdd(cost, RInt(0)))]

\* run_estimation: the hours and the cost of a matched part, rounded
cli_matched_row(desc, qty, qty_unit, labor_entry, confidence, value, ext, rate) ==
  cli_costed_row(desc, qty, qty_unit, labor_entry, confidence, value,
                 Round2(ext), Round2(RMul(ext, rate)))

\* run_estimation: the row of a part left for manual lookup
cli_manual_row(desc, qty, qty_unit, confidence) ==
  [Part |-> desc, Quantity |-> qty, Qty_Unit |-> qty_unit,
   Labor_Match |-> "NEEDS MANUAL LOOKUP",
   Labor_Confidence |-> confidence,
   Labor_Value |-> RInt(0),
   Labor_Unit |-> "",
   Labor_Hours |-> RInt(0),
   Labor_Cost |-> RInt(0),
   Material_Cost |-> RInt(0),
   Total_Cost |-> RInt(0)]

\* run_estimation: the branch  if labor_entry and confidence > 30
cli_labor(desc, qty, qty_unit, best, value, labor_rate) ==
  IF Len(best.entry) > 0 /\ best.confidence > 300
  THEN IF ~value.ok
       THEN [exc |-> "ValueError", row |-> <<>>]
       ELSE [exc |-> "none",
             row |-> <<cli_matched_row(desc, qty, qty_unit, best.entry[1],
                         best.confidence, value.val,
                         calculate_labor_extension(qty, qty_unit, value.val,
                                                   best.entry[1].Unit),
                         labor_rate)>>]
  ELSE [exc |-> "none",
        row |-> <<cli_manual_row(desc, qty, qty_unit, best.confidence)>>]

\* the status run_estimation prints for a row
cli_status(confidence) ==
  IF confidence > 500 THEN "OK"
  ELSE IF confidence > 300 THEN "LOW CONFIDENCE"
  ELSE "NEEDS REVIEW"

\* run_estimation: one iteration of the loop over the parts, for a part
\* with a description
cli_part(desc, q, best, condition, labor_rate) ==
  IF q.exc # "none" THEN [exc |-> q.exc, row |-> <<>>]
  ELSE cli_labor(desc, q.val, q.unit, best,
                 IF Len(best.entry) > 0 THEN labor_val(best.entry[1], condition)
                 ELSE [ok |-> TRUE, val |-> RInt(0)],
                 labor_rate)

\* run_estimation: the loop over the parts (load_parts_list has stripped the
\* Part and Quantity cells); an exception leaves the function with no rows
RECURSIVE run_estimation_from(_, _, _, _, _, _, _)
\* results.append(row) and the status line, or the exception of the part
run_estimation_next(plist, i, table, condition, labor_rate, rows, status, r) ==
  IF r.exc # "none"
  THEN [ran |-> TRUE, exc |-> r.exc, results |-> <<>>, status |-> status]
  ELSE run_estimation_from(plist, i + 1, table, condition, labor_rate,
         rows \o r.row,
         Append(status, cli_status(r.row[1].Labor_Confidence)))

run_estimation_from(plist, i, table, condition, labor_rate, rows, status) ==
  IF i > Len(plist)
  THEN [ran |-> TRUE, exc |-> "none", results |-> rows, status |-> status]
  ELSE IF Strip(plist[i].description) = ""
  THEN run_estimation_from(plist, i + 1, table, condition, labor_rate, rows,
                           status)
  ELSE run_estimation_next(plist, i, table, condition, labor_rate, rows,
         status,
         cli_part(Strip(plist[i].description),
                  parse_quantity(Strip(plist[i].quantity)),
                  best_match(table, Strip(plist[i].description)),
                  condition, labor_rate))

\* run_estimation(parts_csv, labor_db, labor_rate, condition, fetch_prices)
run_estimation(plist, table, condition, labor_rate) ==
  run_estimation_from(plist, 1, table, condition, labor_rate, <<>>, <<>>)

\* generate_summary_report: the three lists it writes under MATCH QUALITY
\* and ACTION ITEMS
generate_summary_report(results) ==
  [ran |-> TRUE,
   needs_review |->
     SelectSeq(results, LAMBDA r : r.Labor_Confidence <= 300),
   low_confidence |->
     SelectSeq(results, LAMBDA r : 300 < r.Labor_Confidence
                                   /\ r.Labor_Confidence <= 500),
   good_matches |->
     SelectSeq(results, LAMBDA r : r.Labor_Confidence > 500)]

\* POST /api/estimate: the row of a matched part, price lookup off
api_costed_row(desc, qty, qty_unit, labor_entry, confidence, value, hours, cost) ==
  [part |-> desc, quantity |-> qty, qty_unit |-> qty_unit,
   labor_match |-> labor_match(labor_entry),
   labor_section |-> labor_entry.Section,
   labor_category |-> labor_entry.Category,
   labor_item |-> labor_entry.Item,
   labor_confidence |-> confidence,
   labor_value |-> value,
   labor_unit |-> labor_entry.Unit,
   labor_hours |-> hours,
   labor_cost |-> cost,
   material_cost |-> RInt(0),
   total_cost |-> Round2(RAdd(cost, RInt(0)))]

\* POST /api/estimate: the hours and the cost of a matched part, rounded
api_matched_row(desc, qty, qty_unit, labor_entry, confidence, value, ext, rate) ==
  api_costed_row(desc, qty, qty_unit, labor_entry, confidence, value,
                 Round2(ext), Round2(RMul(ext, rate)))

\* POST /api/estimate: the row of a part left for manual lookup
api_manual_row(desc, qty, qty_unit, confidence) ==
  [part |-> desc, quantity |-> qty, qty_unit |-> qty_unit,
   labor_match |-> "NEEDS MANUAL LOOKUP",
   labor_confidence |-> confidence,
   labor_value |-> RInt(0),
   labor_unit |-> "",
   labor_hours |-> RInt(0),
   labor_cost |-> RInt(0),
   material_cost |-> RInt(0),
   total_cost |-> RInt(0)]

\* the branch of POST /api/estimate with only the test  if labor_entry
api_labor_ungated(desc, qty, qty_unit, best, value, labor_rate) ==
  IF Len(best.entry) > 0
  THEN IF ~value.ok
       THEN [exc |-> "ValueError", row |-> <<>>]
       ELSE [exc |-> "none",
             row |-> <<api_matched_row(desc, qty, qty_unit, best.entry[1],
                         best.confidence, value.val,
                         calculate_labor_extension(qty, qty_unit, value.val,
                                                   best.entry[1].Unit),
                         labor_rate)>>]
  ELSE [exc |-> "none",
        row |-> <<api_manual_row(desc, qty, qty_unit, best.confidence)>>]

\* POST /api/estimate: the branch  if labor_entry and confidence > 30
api_labor(desc, qty, qty_unit, best, value, labor_rate) ==
  IF Len(best.entry) > 0 /\ best.confidence > 300
  THEN IF ~value.ok
       THEN [exc |-> "ValueError", row |-> <<>>]
       ELSE [exc |-> "none",
             row |-> <<api_matched_row(desc, qty, qty_unit, best.entry[1],
                         best.confidence, value.val,
                         calculate_labor_extension(qty, qty_unit, value.val,
                                                   best.entry[1].Unit),
                         labor_rate)>>]
  ELSE [exc |-> "none",
        row |-> <<api_manual_row(desc, qty, qty_unit, best.confidence)>>]

\* POST /api/estimate: one iteration of the loop over the parts, for a part
\* with a description
api_part(desc, q, best, condition, labor_rate) ==
  IF q.exc # "none" THEN [exc |-> q.exc, row |-> <<>>]
  ELSE api_labor(desc, q.val, q.unit, best,
                 IF Len(best.entry) > 0 THEN labor_val(best.entry[1], condition)
                 ELSE [ok |-> TRUE, val |-> RInt(0)],
                 labor_rate)

\* POST /api/estimate: the loop over the parts
RECURSIVE api_rows_from(_, _, _, _, _, _)
\* results.append(row), or the exception of the part
api_rows_next(plist, i, table, condition, labor_rate, rows, r) ==
  IF r.exc # "none" THEN [exc |-> r.exc, results |-> <<>>]
  ELSE api_rows_from(plist, i + 1, table, condition, labor_rate,
                     rows \o r.row)

api_rows_from(plist, i, table, condition, labor_rate, rows) ==
  IF i > Len(plist) THEN [exc |-> "none", results |-> rows]
  ELSE IF Strip(plist[i].description) = ""
  THEN api_rows_from(plist, i + 1, table, condition, labor_rate, rows)
  ELSE api_rows_next(plist, i, table, condition, labor_rate, rows,
         api_part(Strip(plist[i].description),
                  parse_quantity(plist[i].quantity),
                  best_match(table, Strip(plist[i].description)),
                  condition, labor_rate))

\* sum(r.get(field, 0) for r in results)
RECURSIVE sum_field(_, _, _)
sum_field(results, i, field) ==
  IF i > Len(results) THEN RInt(0)
  ELSE RAdd(results[i][field], sum_field(results, i + 1, field))

\* the count without its lower limit
count_upto(results, lo, hi) ==
  Cardinality({i \in 1..Len(results) : results[i].labor_confidence <= hi})

\* sum(1 for r in results if lo < r.get('labor_confidence', 0) <= hi)
count_between(results, lo, hi) ==
  Cardinality({i \in 1..Len(results) :
                 lo < results[i].labor_confidence
                 /\ results[i].labor_confidence <= hi})

\* POST /api/estimate: the totals
api_totals(results) ==
  [total_labor_hours |-> Round2(sum_field(results, 1, "labor_hours")),
   total_labor_cost |-> Round2(sum_field(results, 1, "labor_cost")),
   total_material_cost |-> Round2(sum_field(results, 1, "material_cost")),
   total_cost |-> Round2(sum_field(results, 1, "total_cost")),
   good_matches |->
     Cardinality({i \in 1..Len(results) : results[i].labor_confidence > 500}),
   low_confidence |-> count_between(results, 300, 500),
   needs_review |->
     Cardinality({i \in 1..Len(results) : results[i].labor_confidence <= 300}),
   part_count |-> Len(results)]

\* POST /api/estimate: 400 without parts, 500 when the loop raises, else
\* the rows and their totals
api_response(rows) ==
  IF rows.exc # "none"
  THEN [ran |-> TRUE, code |-> 500, results |-> <<>>, totals |-> NoTotals]
  ELSE [ran |-> TRUE, code |-> 200, results |-> rows.results,
        totals |-> api_totals(rows.results)]

run_estimate(plist, table, condition, labor_rate) ==
  IF Len(plist) = 0
  THEN [ran |-> TRUE, code |-> 400, results |-> <<>>, totals |-> NoTotals]
  ELSE api_response(api_rows_from(plist, 1, table, condition, labor_rate, <<>>))

\* POST /api/estimate/export: the rows as generate_summary_report wants them
RECURSIVE mapped(_, _)
mapped(results, i) ==
  IF i > Len(results) THEN <<>>
  ELSE << [Part |-> results[i].part,
           Quantity |-> results[i].quantity,
           Labor_Hours |-> results[i].labor_hours,
           Labor_Cost |-> results[i].labor_cost,
           Material_Cost |-> results[i].material_cost,
           Labor_Confidence |-> results[i].labor_confidence,
           Labor_Match |-> results[i].labor_match] >>
       \o mapped(results, i + 1)

\* the parts lists given to the pipelines
EstDescs ==
  {"", " ", "3/4 emt", "cond", "4", "a wire", "3/4 3/4 rigid", "garbage"}

EstQtys == {"250 feet", ","}

\* the longest parts list drawn
MaxParts == 2

PartLists ==
  UNION { [1..n -> [description : EstDescs, quantity : EstQtys]] :
          n \in 0..MaxParts }

EstConditions == {"Average", "Difficult"}

\* the labor rate: the default of the command line
EstRates == {RInt(85)}

EstTables ==
  { << Row("EMT CONDUIT", "EMT", "3/4\"", "5.0", "C") >>,
    << Row("EMT CONDUIT", "EMT", "3/4\"", "5.0", "C"),
       Row("WIRE", "THHN", "#10", "7.5", "M") >>,
    << Row("BOXES", "SQUARE BOXES", "4\" SQUARE", "0.25", ""),
       Row("PVC CONDUIT", "PVC", "3/4\"", "4.5", "C"),
       Row("EMT FITTINGS", "COUPLINGS", "3/4\"", "0.1", "E") >>,
    << RowWith("EMT CONDUIT", "EMT", "3/4\"", "5.0", "6.5", "C"),
       RowWith("WIRE", "THHN", "#10", "7.5", "9.0", "M") >> }

InitEst ==
  /\ op = "init"
  /\ NoCalc
  /\ dbFile \in EstTables
  /\ loaded = FALSE
  /\ entries = <<>>
  /\ call = NoCall
  /\ parts \in PartLists
  /\ estIn \in [condition : EstConditions, labor_rate : EstRates]
  /\ cli = NoCli
  /\ report = NoReport
  /\ api = NoApi
  /\ exported = NoReport
  /\ NoSide

\* main.py, phase 2: run_estimation with a LaborMatcher of its own
RunEstimation ==
  /\ ~cli.ran
  /\ op' = "run_estimation"
  /\ cli' = run_estimation(parts, dbFile, estIn.condition, estIn.labor_rate)
  /\ UNCHANGED <<sideVars, parts, estIn, report, api, exported, qtyVars,
                 extVars,
                 matcherVars>>

\* main.py, phase 3: generate_summary_report on the rows returned
SummaryReport ==
  /\ cli.ran
  /\ cli.exc = "none"
  /\ ~report.ran
  /\ op' = "generate_summary_report"
  /\ report' = generate_summary_report(cli.results)
  /\ UNCHANGED <<sideVars, parts, estIn, cli, api, exported, qtyVars,
                 extVars,
                 matcherVars>>

\* POST /api/estimate; get_matcher constructs the LaborMatcher on first use
ApiEstimate ==
  /\ ~api.ran
  /\ op' = "run_estimate"
  /\ loaded' = (loaded \/ Len(parts) > 0)
  /\ entries' = IF Len(parts) > 0 THEN dbFile ELSE entries
  /\ api' = run_estimate(parts, dbFile, estIn.condition, estIn.labor_rate)
  /\ UNCHANGED <<sideVars, parts, estIn, cli, report, exported, dbFile, call,
                 qtyVars,
                 extVars>>

\* POST /api/estimate/export with the rows /api/estimate returned
ExportEstimate ==
  /\ api.ran
  /\ api.code = 200
  /\ Len(api.results) > 0
  /\ ~exported.ran
  /\ op' = "export_estimate"
  /\ exported' = generate_summary_report(mapped(api.results, 1))
  /\ UNCHANGED <<sideVars, parts, estIn, cli, report, api, qtyVars,
                 extVars,
                 matcherVars>>

NextEst == RunEstimation \/ SummaryReport \/ ApiEstimate \/ ExportEstimate

SpecEst == InitEst /\ [][NextEst]_vars


(***************************************************************************)
(* Claims about cost_calculator.py                                         *)
(***************************************************************************)
\* h = (q / k) * v, stated on numerators and denominators
IsScaledProduct(h, q, v, k) == h.n * (q.d * v.d * k) = q.n * v.n * h.d

\* C5: labor_hours(quantity, _, labor_value, unit) is quantity * labor_value
\* for unit E, (quantity / 100) * labor_value for unit C and
\* (quantity / 1000) * labor_value for unit M; labor_hours(100, _, v, C) = v
\* and labor_hours(1000, _, v, M) = v.
C5_UnitFormulas ==
  op = "calculate_labor_extension" =>
    /\ extIn.labor_unit = "E" =>
         IsScaledProduct(extOut, extIn.qty, extIn.labor_value, 1)
    /\ extIn.labor_unit = "C" =>
         IsScaledProduct(extOut, extIn.qty, extIn.labor_value, 100)
    /\ extIn.labor_unit = "M" =>
         IsScaledProduct(extOut, extIn.qty, extIn.labor_value, 1000)
    /\ (extIn.labor_unit = "C" /\ extIn.qty = RInt(100)) =>
         extOut = extIn.labor_value
    /\ (extIn.labor_unit = "M" /\ extIn.qty = RInt(1000)) =>
         extOut = extIn.labor_value

C5_Witness ==
  /\ op = "calculate_labor_extension"
  /\ extIn.labor_unit = "C"
  /\ extIn.qty = RInt(100)
  /\ extIn.labor_value = Rat(3, 2)
  /\ extOut = Rat(3, 2)

\* C6: for a labor_unit other than E, C or M (the empty string and
\* lower-case letters included) labor_hours returns quantity * labor_value,
\* the value it returns for unit E.
C6_UnknownUnitIsEach ==
  (op = "calculate_labor_extension" /\ extIn.labor_unit \notin {"E", "C", "M"}) =>
    /\ IsScaledProduct(extOut, extIn.qty, extIn.labor_value, 1)
    /\ extOut = calculate_labor_extension(extIn.qty, extIn.qty_unit,
                                          extIn.labor_value, "E")

C6_Witness ==
  /\ op = "calculate_labor_extension"
  /\ extIn.labor_unit = "c"
  /\ extIn.qty = RInt(100)
  /\ extIn.labor_value = RInt(5)
  /\ extOut = RInt(500)

\* C7: parse_quantity never raises: text that cannot be parsed as a
\* quantity, such as "garbage" or ",", yields (0, "").
C7_NeverRaises ==
  op = "parse_quantity" =>
    /\ qtyOut.exc = "none"
    /\ QtyText(qtyIn) \in {"garbage", ","} => qtyOut = NoQty

\* the numbers of QtyNums that are digits with optional thousands commas and
\* an optional decimal point, with the value each one denotes
LeadingNumberValue ==
  ("0" :> RInt(0)) @@ ("5" :> RInt(5)) @@ ("40" :> RInt(40)) @@
  ("250" :> RInt(250)) @@ ("2,500" :> RInt(2500)) @@ ("1.5" :> Rat(3, 2)) @@
  ("5." :> RInt(5))

\* the units of a Quantity
QuantityUnits == {"", "feet", "ft", "foot", "ea", "each", "lot", "box"}

\* C8: a leading number optionally followed by one recognized unit word in
\* any letter case parses to that number, commas removed, and the unit
\* lower-cased ("" without a unit word).
C8_NumberAndUnit ==
  ( /\ op = "parse_quantity"
    /\ qtyIn.lead = ""
    /\ qtyIn.num \in DOMAIN LeadingNumberValue
    /\ Lower(qtyIn.word) \in QuantityUnits
    /\ qtyIn.tail = "" ) =>
    qtyOut = [exc |-> "none", val |-> LeadingNumberValue[qtyIn.num],
              unit |-> Lower(qtyIn.word)]

\* C9: every Quantity parse_quantity produces has a non-negative value and
\* a unit among "", feet, ft, foot, ea, each, lot, box.
C9_QuantityDomain ==
  (op = "parse_quantity" /\ qtyOut.exc = "none") =>
    /\ qtyOut.val.n >= 0
    /\ qtyOut.unit \in QuantityUnits

(***************************************************************************)
(* Claims about LaborMatcher.search and LaborMatcher.best_match            *)
(* (scores and confidences in tenths: 200 is 20, 1000 is 100)              *)
(***************************************************************************)
\* the rows of the table that score above 20 for the query
Qualifying(table, query) ==
  {i \in 1..Len(table) : Scored[query, table[i]].score > 200}

\* the highest score among them
TopScore(table, query) ==
  CHOOSE t \in {Scored[query, table[i]].score : i \in Qualifying(table, query)} :
    \A i \in Qualifying(table, query) : Scored[query, table[i]].score <= t

\* C1: for a non-empty table and any query, the empty one included,
\* best_match returns a confidence in [0, 100], equal to
\* min(100, top candidate's score) whenever a candidate exists.
C1_ConfidenceRange ==
  (op = "best_match" /\ Len(entries) > 0) =>
    /\ call.best.confidence >= 0
    /\ call.best.confidence <= 1000
    /\ Qualifying(entries, call.query) # {} =>
         call.best.confidence = Min(1000, TopScore(entries, call.query))

C1_Witness ==
  /\ op = "best_match"
  /\ Len(entries) > 0
  /\ Qualifying(entries, call.query) # {}
  /\ TopScore(entries, call.query) > 1000
  /\ call.best.confidence = 1000

\* C2: search returns at most top_n results (none for a top_n below 1),
\* sorted by score descending, equal scores in table order.
C2_TopNSortedStable ==
  op = "search" =>
    /\ Len(call.results) <= Max(call.top_n, 0)
    /\ \A i, j \in 1..Len(call.results) :
         i < j =>
           \/ call.results[i].score > call.results[j].score
           \/ /\ call.results[i].score = call.results[j].score
              /\ call.results[i].idx < call.results[j].idx

\* C3: every returned MatchResult scores above 20, and no entry scoring 20
\* or less is returned.
C3_Threshold ==
  op = "search" =>
    /\ \A k \in 1..Len(call.results) :
         /\ call.results[k].score > 200
         /\ call.results[k].entry = entries[call.results[k].idx]
         /\ call.results[k].score = Scored[call.query, call.results[k].entry].score
    /\ \A i \in 1..Len(entries) :
         Scored[call.query, entries[i]].score <= 200 =>
           \A k \in 1..Len(call.results) : call.results[k].idx # i

C3_Witness ==
  /\ op = "search"
  /\ Len(call.results) > 0
  /\ \E i \in 1..Len(entries) :
       /\ Scored[call.query, entries[i]].score <= 200
       /\ Scored[call.query, entries[i]].score > 0

\* C4: when no entry qualifies, best_match returns no entry, confidence 0
\* and the one fixed no-match reason.
C4_NoMatch ==
  (op = "best_match" /\ Qualifying(entries, call.query) = {}) =>
    call.best = [entry |-> <<>>, confidence |-> 0, reason |-> "No match found"]

C4_Witness ==
  /\ op = "best_match"
  /\ Len(entries) > 0
  /\ call.query = "garbage"
  /\ Qualifying(entries, call.query) = {}
  /\ call.best.entry = <<>>
  /\ call.best.confidence = 0

(***************************************************************************)
(* Claims about the estimation pipelines                                   *)
(***************************************************************************)
\* the class the policy gives a confidence (in tenths)
PolicyClass(confidence) ==
  IF confidence <= 300 THEN "needs_review"
  ELSE IF confidence <= 500 THEN "low_confidence"
  ELSE "good_match"

\* the rows of results whose confidence field falls in a class
InClass(results, field, class) ==
  {i \in 1..Len(results) : PolicyClass(results[i][field]) = class}

\* a row --- its match, hours and cost fields named --- is a manual-lookup
\* placeholder exactly when its confidence is 30 or less
Unmatched(row, confidence, match, hours, cost) ==
  IF row[confidence] <= 300
  THEN /\ row[match] = "NEEDS MANUAL LOOKUP"
       /\ row[hours] = RInt(0)
       /\ row[cost] = RInt(0)
  ELSE row[match] # "NEEDS MANUAL LOOKUP"

\* C10: run_estimation, POST /api/estimate and the summary report apply one
\* confidence policy: a line with confidence 30 or less is a manual-lookup
\* placeholder with 0 hours and 0 cost, whatever best_match returned; above
\* 30 and up to 50 it is low confidence; above 50 it is a good match.
C10_OnePolicy ==
  /\ (cli.ran /\ cli.exc = "none") =>
       /\ Len(cli.status) = Len(cli.results)
       /\ \A i \in 1..Len(cli.results) :
            /\ cli.results[i].Labor_Confidence =
                 best_match(dbFile, cli.results[i].Part).confidence
            /\ Unmatched(cli.results[i], "Labor_Confidence", "Labor_Match",
                         "Labor_Hours", "Labor_Cost")
            /\ cli.status[i] =
                 CASE PolicyClass(cli.results[i].Labor_Confidence) = "needs_review"
                        -> "NEEDS REVIEW"
                   [] PolicyClass(cli.results[i].Labor_Confidence) = "low_confidence"
                        -> "LOW CONFIDENCE"
                   [] OTHER -> "OK"
  /\ report.ran =>
       /\ Len(report.needs_review) =
            Cardinality(InClass(cli.results, "Labor_Confidence", "needs_review"))
       /\ Len(report.low_confidence) =
            Cardinality(InClass(cli.results, "Labor_Confidence", "low_confidence"))
       /\ Len(report.good_matches) =
            Cardinality(InClass(cli.results, "Labor_Confidence", "good_match"))
       /\ \A i \in 1..Len(report.needs_review) :
            report.needs_review[i].Labor_Match = "NEEDS MANUAL LOOKUP"
       /\ \A i \in 1..Len(report.low_confidence) :
            report.low_confidence[i].Labor_Match # "NEEDS MANUAL LOOKUP"
       /\ \A i \in 1..Len(report.good_matches) :
            report.good_matches[i].Labor_Match # "NEEDS MANUAL LOOKUP"
  /\ (api.ran /\ api.code = 200) =>
       /\ \A i \in 1..Len(api.results) :
            /\ api.results[i].labor_confidence =
                 best_match(dbFile, api.results[i].part).confidence
            /\ Unmatched(api.results[i], "labor_confidence", "labor_match",
                         "labor_hours", "labor_cost")
       /\ api.totals.needs_review =
            Cardinality(InClass(api.results, "labor_confidence", "needs_review"))
       /\ api.totals.low_confidence =
            Cardinality(InClass(api.results, "labor_confidence", "low_confidence"))
       /\ api.totals.good_matches =
            Cardinality(InClass(api.results, "labor_confidence", "good_match"))
  /\ exported.ran =>
       /\ Len(exported.needs_review) = api.totals.needs_review
       /\ Len(exported.low_confidence) = api.totals.low_confidence
       /\ Len(exported.good_matches) = api.totals.good_matches
  /\ (cli.ran /\ cli.exc = "none" /\ api.ran /\ api.code = 200) =>
       /\ Len(cli.results) = Len(api.results)
       /\ \A i \in 1..Len(cli.results) :
            /\ cli.results[i].Labor_Confidence = api.results[i].labor_confidence
            /\ cli.results[i].Labor_Match = api.results[i].labor_match

\* both pipelines and both reports ran on a list with a line for which
\* best_match returned an entry at confidence 30 or less, next to a line
\* above 30
C10_Witness ==
  /\ cli.ran /\ report.ran /\ api.ran /\ exported.ran
  /\ \E i, j \in 1..Len(api.results) :
       /\ Len(best_match(dbFile, api.results[i].part).entry) > 0
       /\ api.results[i].labor_confidence <= 300
       /\ api.results[i].labor_match = "NEEDS MANUAL LOOKUP"
       /\ cli.results[i].Labor_Match = "NEEDS MANUAL LOOKUP"
       /\ api.results[j].labor_confidence > 300
       /\ api.results[j].labor_hours # RInt(0)
  /\ Len(report.needs_review) = 1
  /\ Len(exported.needs_review) = 1

(***************************************************************************)
(* Claims about conduit types                                              *)
(***************************************************************************)
\* the section of the entry names a conduit type other than emt
OtherConduitSection(entry) ==
  \E ct \in {"rigid", "pvc", "imc", "ent", "mc"} :
    InSeq(ct, Split(Lower(entry.Section)))

\* the entry has emt in its section or its category
EmtEntry(entry) ==
  Contains(Lower(entry.Section), "emt") \/ Contains(Lower(entry.Category), "emt")

\* C11: for a query with the word emt, when some entry with emt in its
\* section or category scores above 20, best_match does not return an entry
\* whose section names another conduit type.
C11_EmtNotDisplaced ==
  ( /\ op = "best_match"
    /\ InSeq("emt", Split(normalize_description(call.query)))
    /\ \E i \in 1..Len(entries) :
         EmtEntry(entries[i]) /\ Scored[call.query, entries[i]].score > 200 )
  => ( /\ Len(call.best.entry) = 1
       /\ ~OtherConduitSection(call.best.entry[1]) )

(***************************************************************************)
(* Claims about construction and about the condition column                *)
(***************************************************************************)
\* C12: a matcher is never constructed over a table file with no data
\* rows; construction over such a file is a hard error.
C12_EmptyTableFailsFast == loaded => Len(entries) > 0

\* the hours-per-unit the claim gives a matched entry: the condition column
\* when the entry has it, the Average column otherwise
ConditionValue(entry, condition) ==
  IF condition \in DOMAIN entry THEN PyFloat(entry[condition]).val
  ELSE PyFloat(entry.Average).val

\* the name a matched line carries for an entry
MatchedName(entry) ==
  entry.Section \o " > " \o entry.Category \o " > " \o entry.Item

\* some part with a description has a quantity parse_quantity raises on
SomeQuantityRaises ==
  \E i \in 1..Len(parts) :
    /\ Strip(parts[i].description) # ""
    /\ parse_quantity(parts[i].quantity).exc # "none"

\* C13: a matched line takes its hours-per-unit from the requested
\* condition column when the entry has it and from Average when it does
\* not, in run_estimation and in POST /api/estimate alike, and a missing
\* column makes neither fail.
C13_ConditionFallback ==
  /\ (cli.ran /\ cli.exc # "none") => SomeQuantityRaises
  /\ (api.ran /\ api.code = 500) => SomeQuantityRaises
  /\ \A i \in 1..Len(cli.results) :
       cli.results[i].Labor_Match # "NEEDS MANUAL LOOKUP" =>
         \E j \in 1..Len(dbFile) :
           /\ cli.results[i].Labor_Match = MatchedName(dbFile[j])
           /\ cli.results[i].Labor_Value =
                ConditionValue(dbFile[j], estIn.condition)
  /\ \A i \in 1..Len(api.results) :
       api.results[i].labor_match # "NEEDS MANUAL LOOKUP" =>
         \E j \in 1..Len(dbFile) :
           /\ api.results[i].labor_match = MatchedName(dbFile[j])
           /\ api.results[i].labor_value =
                ConditionValue(dbFile[j], estIn.condition)

\* both pipelines ran with condition Difficult on a table without that
\* column and gave a matched line the Average value 5.0
C13_Witness ==
  /\ cli.ran /\ api.ran
  /\ estIn.condition = "Difficult"
  /\ "Difficult" \notin DOMAIN dbFile[1]
  /\ \E i \in 1..Len(cli.results) :
       /\ cli.results[i].Labor_Match = "EMT CONDUIT > EMT > 3/4\""
       /\ cli.results[i].Labor_Value = RInt(5)
       /\ api.results[i].labor_value = RInt(5)
       /\ cli.results[i].Labor_Hours = Rat(25, 2)

(***************************************************************************)
(* Claims about the reference table as shared state                        *)
(***************************************************************************)
\* C14: no call of search or best_match changes the matcher's table --- its
\* entries, their order, their fields --- so whatever calls came before, a
\* call returns what the table loaded from the file gives for its arguments.
C14_TableReadOnly ==
  /\ [][ op' \in {"search", "best_match", "return"} =>
           (entries' = entries /\ loaded' = loaded) ]_vars
  /\ [](loaded => entries = dbFile)
  /\ [](op = "search" =>
          call.results = search(dbFile, call.query, call.top_n))
  /\ [](op = "best_match" => call.best = best_match(dbFile, call.query))

\* a search on a table of three different rows has returned two results or
\* more, and the table is as it was loaded
C14_Witness ==
  /\ op = "search"
  /\ Len(call.results) >= 2
  /\ Len(entries) = 3
  /\ entries[1] # entries[2] /\ entries[2] # entries[3]
  /\ entries = dbFile

(***************************************************************************)
(* Relations between calls of calculate_labor_extension                    *)
(***************************************************************************)
\* the whole factors a quantity or a labor value is scaled by
ScaleFactors == {2, 3, 10}

\* C17: for each of the unit codes E, C and M the hours are linear in the
\* quantity and in the labor value: scaling either input by k scales the
\* hours by k.
C17_Linear ==
  (op = "calculate_labor_extension_f64" /\ extIn.labor_unit \in {"E", "C", "M"}) =>
    \A k \in ScaleFactors :
      /\ calculate_labor_extension_f64(F64Mul(F64Nat(k), extIn.qty), extIn.qty_unit,
                                       extIn.labor_value, extIn.labor_unit)
           = F64Mul(F64Nat(k), extOut)
      /\ calculate_labor_extension_f64(extIn.qty, extIn.qty_unit,
                                       F64Mul(F64Nat(k), extIn.labor_value),
                                       extIn.labor_unit)
           = F64Mul(F64Nat(k), extOut)

\* the units a quantity can carry
AllQtyUnits == {"", "feet", "ft", "foot", "ea", "each", "lot", "box"}

\* C18: the hours do not depend on the unit of the quantity: calls that
\* differ only in qty_unit return the same hours.
C18_QtyUnitIgnored ==
  op = "calculate_labor_extension" =>
    \A u \in AllQtyUnits :
      calculate_labor_extension(extIn.qty, u, extIn.labor_value,
                                extIn.labor_unit) = extOut

\* 250 feet at 5 per each is 1250 hours, as for 250 of anything
C18_Witness ==
  /\ op = "calculate_labor_extension"
  /\ extIn.qty_unit = "feet"
  /\ extIn.labor_unit = "E"
  /\ extIn.qty = RInt(250)
  /\ extIn.labor_value = RInt(5)
  /\ extOut = RInt(1250)

(***************************************************************************)
(* Claims about the decimal sizes                                          *)
(***************************************************************************)
\* the description as the size table finds it: lower case, inch marks
\* spelled out, single spaces
BeforeSizes(desc) ==
  Strip(CollapseSpaces(Replace(Replace(Strip(Lower(desc)), "\"", " inch "),
                               "'", " ")))

\* a token that is a key of the size table as its fraction, any other token
\* as it is
WholeToken(tok) ==
  IF \E k \in 1..Len(SIZE_ALIASES) : SIZE_ALIASES[k][1] = tok
  THEN SIZE_ALIASES[CHOOSE k \in 1..Len(SIZE_ALIASES) : SIZE_ALIASES[k][1] = tok][2]
  ELSE tok

\* C19: normalize applies the decimal sizes as whole-token replacements: a
\* token equal to a key of the table becomes its fraction (".75" and "0.75"
\* become "3/4", "1.5" becomes "1 1/2") and a key inside a longer token is
\* left alone.
C19_WholeTokens ==
  op = "normalize_description" =>
    LET toks == Split(BeforeSizes(normIn))
    IN normOut = Join([i \in 1..Len(toks) |-> WholeToken(toks[i])], " ")

(***************************************************************************)
(* The end-to-end scenario                                                 *)
(***************************************************************************)
\* the table of the scenario: one entry
ScenarioTable == << Row("EMT CONDUIT", "EMT", "3/4\"", "5.0", "C") >>

\* C20: over the table holding the single entry EMT CONDUIT / EMT / 3/4" /
\* Average 5.0 / Unit C, the query "3/4 emt" is matched with a confidence
\* above 50, the quantity "250 feet" parses to (250.0, "feet"), and the
\* hours for 250 feet at 5.0 per C are 12.5; run_estimation puts the three
\* together on the line of such a part, whose confidence is the one
\* best_match returned.
C20_EndToEnd ==
  (cli.ran /\ cli.exc = "none" /\ dbFile = ScenarioTable) =>
    /\ best_match(ScenarioTable, "3/4 emt").confidence > 500
    /\ parse_quantity("250 feet") = [exc |-> "none", val |-> RInt(250), unit |-> "feet"]
    /\ calculate_labor_extension(RInt(250), "feet", PyFloat("5.0").val, "C") = Rat(25, 2)
    /\ \A i \in 1..Len(cli.results) :
         cli.results[i].Part = "3/4 emt" =>
           /\ cli.results[i].Labor_Confidence > 500
           /\ cli.results[i].Quantity = RInt(250)
           /\ cli.results[i].Qty_Unit = "feet"
           /\ cli.results[i].Labor_Value = RInt(5)
           /\ cli.results[i].Labor_Hours = Rat(25, 2)

\* run_estimation costed 250 feet of "3/4 emt" from the one-entry table
C20_Witness ==
  /\ cli.ran /\ cli.exc = "none"
  /\ dbFile = ScenarioTable
  /\ estIn.condition = "Average"
  /\ Len(cli.results) = 1
  /\ cli.results[1].Part = "3/4 emt"
  /\ cli.results[1].Labor_Match = "EMT CONDUIT > EMT > 3/4\""
  /\ cli.results[1].Labor_Confidence = 1000
  /\ cli.results[1].Labor_Hours = Rat(25, 2)

(***************************************************************************)
(* Claims about reloading the table                                        *)
(***************************************************************************)
\* C15: load_db swaps the whole table at once: a search that returns has
\* ranked one whole table, the one self.entries named when its loop began
\* or one bound since, never a mixture of two and never a table still
\* being read.
C15_AtomicSwap ==
  (op = "search" /\ scan.done) =>
    \E k \in scan.list..cur :
      scan.results = search(tables[k], scan.query, scan.top_n)

\* a search returned after load_db had bound a different table under it,
\* and it ranked the table it began with
C15_Witness ==
  /\ op = "search" /\ scan.done
  /\ cur > scan.list
  /\ Len(scan.results) > 0
  /\ scan.results = search(tables[scan.list], scan.query, scan.top_n)
  /\ scan.results # search(tables[cur], scan.query, scan.top_n)

(***************************************************************************)
(* Claims about the shared matcher of the app                              *)
(***************************************************************************)
\* C16: the table is loaded once, before any matching begins: over every
\* interleaving of requests the shared matcher and its table are
\* constructed at most once, and no search runs against a table that is
\* not loaded yet.
C16_LoadedOnce ==
  /\ Len(built) <= 1
  /\ \A t \in Threads :
       thread[t].pc = "match" =>
         /\ thread[t].m \in 1..Len(built)
         /\ built[thread[t].m].loaded

(***************************************************************************)
(* Claims about the signals of the score                                   *)
(***************************************************************************)
\* the reason tags that begin with prefix
TagsOf(reasons, prefix) ==
  SelectSeq(reasons, LAMBDA r : StartsWithAt(r, 1, prefix))

ConduitTypeSet == {"emt", "rigid", "pvc", "imc", "ent", "mc"}

\* the conduit types that are whole words of the text
TypesNamed(text) == {ct \in ConduitTypeSet : InSeq(ct, Split(text))}

\* where a conduit type stands in the fixed order
TypeRank(ct) == CHOOSE k \in 1..Len(conduit_types) : conduit_types[k] = ct

\* of several conduit types the first in the fixed order
FirstType(types) ==
  CHOOSE ct \in types : \A other \in types : TypeRank(ct) <= TypeRank(other)

\* the score is the sum of what the tags stand for and 0.3 of the fuzzy
\* ratio, in tenths
ScoreIsSumOfSignals ==
  scoreOut.score =
      400 * Len(TagsOf(scoreOut.reasons, "type_match:"))
    - 250 * Len(TagsOf(scoreOut.reasons, "wrong_type_penalty:"))
    + 300 * Len(TagsOf(scoreOut.reasons, "size_match:"))
    + 150 * Len(TagsOf(scoreOut.reasons, "keyword:"))
    + 3 * scoreOut.fuzzy

AliasFires(a, query, entry) ==
  /\ Contains(normalize_description(query), a.alias)
  /\ \E i \in 1..Len(a.targets) :
       Contains(combined_text(entry), Lower(a.targets[i]))

\* C22: for each alias of the table the score gets 40 and one reason exactly
\* when the alias term is in the normalized query and at least one of its
\* fragments is in the combined text; never more than 40 for one alias,
\* however many of its fragments are there.
C22_AliasBonus ==
  op = "score" =>
    /\ ScoreIsSumOfSignals
    /\ \A k \in 1..Len(TYPE_ALIASES) :
         Len(TagsOf(scoreOut.reasons, "type_match:" \o TYPE_ALIASES[k].alias))
           = IF AliasFires(TYPE_ALIASES[k], scoreIn.query, scoreIn.entry)
             THEN 1 ELSE 0
    /\ Len(TagsOf(scoreOut.reasons, "type_match:"))
         = Cardinality({k \in 1..Len(TYPE_ALIASES) :
             AliasFires(TYPE_ALIASES[k], scoreIn.query, scoreIn.entry)})

\* "3/4 coupling" against COUPLINGS, which holds both fragments of the alias
C22_Witness ==
  /\ op = "score"
  /\ scoreIn.query = "3/4 coupling"
  /\ Contains(combined_text(scoreIn.entry), "couplings")
  /\ Contains(combined_text(scoreIn.entry), "coupling")
  /\ TagsOf(scoreOut.reasons, "type_match:") = <<"type_match:coupling">>

\* the size the size block takes from the query and from the entry's item
QuerySize(query) == extract_size(normalize_description(query))

ItemSize(entry) ==
  IF extract_size_from_item(entry.Item) # ""
  THEN extract_size_from_item(entry.Item)
  ELSE extract_size(Replace(Lower(entry.Item), "\"", ""))

SizesAgree(query, entry) ==
  QuerySize(query) # "" /\ ItemSize(entry) = QuerySize(query)

\* the same row but for its item
SameButItem(e1, e2) ==
  /\ e1.Section = e2.Section
  /\ e1.Category = e2.Category
  /\ e1.Average = e2.Average
  /\ e1.Unit = e2.Unit

\* the size block adds 30 and its tag exactly when the query has a size and
\* the item's size is the same text
SizeSignalExact ==
  op = "score" =>
    /\ ScoreIsSumOfSignals
    /\ TagsOf(scoreOut.reasons, "size_match:")
         = IF SizesAgree(scoreIn.query, scoreIn.entry)
           THEN <<"size_match:" \o QuerySize(scoreIn.query)>> ELSE <<>>

\* C23: the size signal adds exactly 30 if and only if the query yields a
\* size and the entry's item size (label extractor first, generic extractor
\* as fallback) is the same text, and otherwise 0; so an entry whose size is
\* the query's scores at least 30 above a row that differs from it only in
\* having another explicit size.
C23_SizeBonus ==
  /\ SizeSignalExact
  /\ (op = "score" /\ SizesAgree(scoreIn.query, scoreIn.entry)) =>
       \A other \in ScorePool :
         (/\ SameButItem(other, scoreIn.entry)
          /\ ItemSize(other) # ""
          /\ ItemSize(other) # QuerySize(scoreIn.query))
           => scoreOut.score >= Scored[scoreIn.query, other].score + 300

\* the distinct words of the normalized query that are neither stop words
\* nor one character long
KeywordSet(query) ==
  LET words == Split(normalize_description(query))
  IN {words[i] : i \in {j \in 1..Len(words) :
                          words[j] \notin stop_words /\ Len(words[j]) > 1}}

\* C24: the query's keywords form a set (stop words and words of one
\* character dropped, duplicates collapsed), so each distinct keyword found
\* in the entry's combined text adds 15 exactly once, also when the query
\* repeats the word.
C24_KeywordsOnce ==
  op = "score" =>
    LET tags == TagsOf(scoreOut.reasons, "keyword:")
        found == {w \in KeywordSet(scoreIn.query) :
                    Contains(combined_text(scoreIn.entry), w)}
    IN /\ ScoreIsSumOfSignals
       /\ {tags[i] : i \in 1..Len(tags)} = {"keyword:" \o w : w \in found}
       /\ Len(tags) = Cardinality(found)

\* C28: when the query has more than one conduit-type word, exactly one is
\* the queried type: the first of emt, rigid, pvc, imc, ent, mc among them,
\* wherever it stands in the query; an entry whose section names any other
\* conduit type, one of the query's own included, loses 25 for it.
C28_FirstInFixedOrder ==
  LET asked == TypesNamed(normalize_description(scoreIn.query))
  IN (op = "score" /\ Cardinality(asked) > 1) =>
       /\ query_conduit(normalize_description(scoreIn.query), 1)
            = FirstType(asked)
       /\ \A ct \in ConduitTypeSet :
            Len(TagsOf(scoreOut.reasons, "wrong_type_penalty:" \o ct))
              = IF /\ ct # FirstType(asked)
                   /\ ct \in TypesNamed(Lower(scoreIn.entry.Section))
                THEN 1 ELSE 0

\* "pvc emt 3/4" names pvc before emt, and a PVC section is penalised for pvc
C28_Witness ==
  /\ op = "score"
  /\ scoreIn.query = "pvc emt 3/4"
  /\ scoreIn.entry.Section = "PVC CONDUIT"
  /\ TagsOf(scoreOut.reasons, "wrong_type_penalty:")
       = <<"wrong_type_penalty:pvc">>
  /\ TagsOf(scoreOut.reasons, "type_match:") = <<"type_match:pvc">>

(***************************************************************************)
(* Claims about best_match                                                 *)
(***************************************************************************)
\* C27: best_match never returns a confidence in (0, 20]: the confidence is
\* 0 exactly when no entry is returned, and above 20 and at most 100
\* whenever an entry is returned (confidences in tenths).
C27_NoLowConfidence ==
  op = "best_match" =>
    /\ ~(call.best.confidence > 0 /\ call.best.confidence <= 200)
    /\ call.best.confidence = 0 <=> call.best.entry = <<>>
    /\ call.best.entry # <<>> =>
         (call.best.confidence > 200 /\ call.best.confidence <= 1000)

\* every row of the table scores above 0 but not above 20, and best_match
\* returns no entry and confidence 0
C27_Witness ==
  /\ op = "best_match"
  /\ Len(entries) > 0
  /\ \A i \in 1..Len(entries) :
       /\ Scored[call.query, entries[i]].score > 0
       /\ Scored[call.query, entries[i]].score <= 200
  /\ call.best.entry = <<>>
  /\ call.best.confidence = 0

(***************************************************************************)
(* Claims about the totals of POST /api/estimate                           *)
(***************************************************************************)
\* the three counts of the totals add up to part_count, the number of
\* result lines, and each line falls in exactly one of the three ranges
TotalsPartition ==
  /\ api.totals.good_matches + api.totals.low_confidence
       + api.totals.needs_review = api.totals.part_count
  /\ api.totals.part_count = Len(api.results)
  /\ api.totals.good_matches
       = Cardinality({i \in 1..Len(api.results) :
                        api.results[i].labor_confidence > 500})
  /\ api.totals.needs_review
       = Cardinality({i \in 1..Len(api.results) :
                        api.results[i].labor_confidence <= 300})

\* C25: in the totals of /api/estimate every result line is counted in
\* exactly one of good_matches, low_confidence and needs_review, so the
\* three add up to part_count, and part_count is the number of input parts
\* with a non-empty description.
C25_TotalsCount ==
  (api.ran /\ api.code = 200) =>
    /\ TotalsPartition
    /\ api.totals.part_count
         = Cardinality({i \in 1..Len(parts) : parts[i].description # ""})

\* C25 as the code has it: part_count is the number of input parts whose
\* description is not empty once surrounding whitespace is stripped; the
\* three counts add up to it, each line counted once.
C25_TotalsCountStripped ==
  (api.ran /\ api.code = 200) =>
    /\ TotalsPartition
    /\ api.totals.part_count
         = Cardinality({i \in 1..Len(parts) :
                          Strip(parts[i].description) # ""})

\* two parts, one of them blank: one line, counted once, as needs_review
C25_Witness ==
  /\ api.ran
  /\ api.code = 200
  /\ Len(parts) = 2
  /\ parts[1].description = " "
  /\ parts[2].description = "garbage"
  /\ api.totals.part_count = 1
  /\ api.totals.needs_review = 1
  /\ api.totals.good_matches = 0
  /\ api.totals.low_confidence = 0

(***************************************************************************)
(* Claims about the price cache                                            *)
(***************************************************************************)
\* the cache key of a search term: vendor prefix, lower-cased, trimmed
KeyOfTerm(term) == "platt::" \o Strip(Lower(term))

\* no two requests were sent for the same cache key
OneRequestPerKey ==
  \A i, j \in 1..Len(requested) :
    KeyOfTerm(requested[i]) = KeyOfTerm(requested[j]) => i = j

\* what is stored stays: same place, same key, same value
StoredStays ==
  /\ Len(cache') >= Len(cache)
  /\ \A i \in 1..Len(cache) : cache'[i] = cache[i]

\* the call that just returned: its result is what the file holds under
\* its key; a key already stored sends no request and returns the stored
\* value; a key not stored sends exactly one request
LookupStoredAndServed ==
  LET term == IF lookup'.platt_id # "" THEN lookup'.platt_id ELSE lookup'.query
      stored == {i \in 1..Len(cache) : cache[i].key = KeyOfTerm(term)}
      kept == {i \in 1..Len(cache') : cache'[i].key = KeyOfTerm(term)}
  IN /\ Cardinality(kept) = 1
     /\ \A i \in kept : lookup'.result = <<cache'[i].value>>
     /\ stored # {} => /\ requested' = requested
                        /\ \A i \in stored : lookup'.result = <<cache[i].value>>
     /\ stored = {} => requested' = Append(requested, term)

\* C26: over any sequential series of scrape_platt calls a request is sent
\* at most once per distinct cache key (the lower-cased, trimmed Platt ID
\* when one is given, else the description): every completed lookup, one
\* that ended in an HTTP error or a request exception included, is stored
\* and then served from the cache, and a stored entry is never removed or
\* replaced.
C26_RequestOncePerKey ==
  /\ []OneRequestPerKey
  /\ [][StoredStays /\ LookupStoredAndServed]_vars

\* a lookup that ended in HTTP 500 for "3/4 EMT" is served again to the
\* call for " 3/4 emt ", and one request was sent for that key
C26_Witness ==
  /\ op = "scrape_platt"
  /\ lookup.hit
  /\ lookup.query = " 3/4 emt "
  /\ lookup.platt_id = ""
  /\ lookup.result[1].query = "3/4 EMT"
  /\ lookup.result[1].error = <<"HTTP 500">>
  /\ Cardinality({i \in 1..Len(requested) :
                    KeyOfTerm(requested[i]) = "platt::3/4 emt"}) = 1

=============================================================================
